---------------------------- MODULE Spec2Model ----------------------------
(***************************************************************************)
(* A model of the control core of the dispenser: the IP allocator, the     *)
(* services manager (construction, router, polling group), the cron        *)
(* watcher and the reload / shutdown coordinator of main.                  *)
(*                                                                         *)
(* IPv4 addresses of the dispenser subnet 172.28.0.0/16 are written as     *)
(* their offset from the base address: 1 is the gateway 172.28.0.1, 2 is   *)
(* 172.28.0.2, and so on.                                                  *)
(***************************************************************************)
EXTENDS Integers, Sequences, FiniteSets, TLC

(***************************************************************************)
(* Bounds of the model.                                                    *)
(***************************************************************************)
MaxServices == 2

Names == {"a", "b", "c"}

(***************************************************************************)
(* Program constants.                                                      *)
(***************************************************************************)
GatewayOffset == 1
FirstOffset == 2
SubnetLimit == 65534

\* Option<T>: None, or Some(x) with x in val.
None == [some |-> FALSE]

Some(x) == [some |-> TRUE, val |-> x]

VARIABLES
    holder,        \* manager_holder: the current ServicesManager, None before startup
    existing_ips,  \* the existing_ips argument of the last from_config call
    generation,    \* "boot", "initial" (built with no previous map) or "reloaded"
    request,       \* the last (host, path) given to resolve_route, None before
    upstream,      \* what resolve_route returned for it
    schedule,      \* CronWatcher.schedule: the instants at which the schedule fires
    now,           \* the clock (chrono::Local::now), in seconds
    next,          \* CronWatcher.next: the AtomicI64
    pc,            \* per polling task: where it is in is_ready
    current,       \* per polling task: the local `current` of is_ready
    new_next,      \* per polling task: the local `new_next` of is_ready
    trues,         \* per stored instant: how many is_ready calls that loaded it returned true
    cas_lost,      \* the instants for which a compare_exchange failed
    containers,    \* the runtime: per container name, whether it exists, from what it was created, running
    coord,         \* main: "boot", "select" (waiting in the select), "exited" or "failed"
    polling_alive, \* whether the polling group spawned for the held manager is running
    first_tick,    \* per instance of the polling group: its `init` flag
    reload_notified,   \* reload_signal: a stored notification
    shutdown_notified, \* shutdown_signal: a stored notification
    cancel_pending,    \* a message waits in the held manager's cancel channel
    last_reload,   \* "none", "ok" or "failed": how the last handled reload ended
    calls,         \* the runtime calls <<verb, container>> issued since the last reload (or startup)
    changed_or_missing, \* the surviving services of the last reload whose declaration changed or whose container was missing
    held_before,   \* the manager the holder held when the last reload began
    main_at,  \* main at a reload: "select", "reloading" (building the new manager), "diff", "outer" or "serving"
    polling_abort,  \* polling_handle.abort(): "none", "requested" or "propagated" (the polling future and its JoinSet are dropped)
    old_poll,  \* per service: the poll task of the outgoing generation
    new_poll,  \* per service: the poll task of the incoming generation
    diff_task,  \* per service: the recreation task of the reload
    late_calls, \* the services for which the outgoing poll task issued a runtime call during the diff step or while the incoming poll task was acting
    declared,  \* startup: the service names of the configuration main was started with
    present,  \* startup: the container names the runtime holds
    inspect_errors,  \* startup: the container names whose inspect call the runtime answers with an error other than 404
    main_startup, \* main at startup: "validate", "failed" (ExitCode::FAILURE) or "loop" (lifecycle loop entered)
    svc,  \* polling: the dispenser settings of the polled service: initialize, pull, watch, cron period (0: no cron), delay
    init_flag,  \* polling: the `init` flag of the poll loop
    poll_elapsed,  \* polling: last_image_poll.elapsed(), in seconds, capped at the delay
    cron_in,  \* polling: CronWatcher.next minus the clock, in seconds
    registry,  \* polling: the digest the registry serves for the image
    local_image,  \* polling: the digest of the image in the local store (0: none)
    last_digest,  \* polling: ImageWatcher.last_digest (0: None)
    box,  \* polling: the container of the service
    faults,  \* polling: the runtime calls that currently fail
    fault_budget,  \* polling: how many more times the runtime may start failing
    tick, \* polling: what the last tick of the poll loop did
    depends_on,  \* gate: the depends_on map of the service that runs: peer name to condition
    peer,  \* gate: per peer, what get_container_status returns for it at this moment
    gate_pc,  \* gate: where run_container is: "pass", "sleep", "open", "done" or "dropped"
    todo,  \* gate: the peers the current pass has not inspected yet
    all_met,  \* gate: whether every entry pushed to depends_on_conditions in this pass is true
    observed,  \* gate: per peer, the status the current pass observed
    own_calls,  \* gate: the runtime calls run_container issued for its own container
    other_tick, \* gate: the parity of the ticks of another service's poll loop
    fill_pending,  \* declared services without a reserved entry, in order
    fill_used,  \* the entries of used_ips at or above FillLow
    fill_next,  \* next_offset of allocate_ips
    fill_assigned,  \* what the fill phase has inserted into assigned
    fill_pc, \* walking, done or panic
    wd_last,  \* ImageWatcher.last_digest
    wd_pc,  \* where update() is
    wd_copy,  \* update's local last_digest
    wd_new,  \* update's new_sha256: a digest or an error
    wd_log, \* the update() calls that returned
    rr_self,  \* the instance of the new manager
    rr_other,  \* the instance of the same name in the old manager
    rr_exists,  \* whether the runtime holds the container
    rr_required,  \* what requires_recreate returned
    rr_calls, \* runtime calls of recreate_if_required
    vb_box,  \* the container in the runtime: absent, stopped or running
    vb_log, \* the stop and remove calls that returned
    sd_main,  \* where main's shutdown arm is
    sd_abort,  \* the abort of the polling task: none, requested or propagated
    sd_poll,  \* per service, the poll task of the running generation
    sd_task,  \* per service, the task of remove_containers
    sd_user_nets,  \* the declared user networks the runtime still holds
    sd_default_net,  \* whether the runtime holds the dispenser network
    sd_overlap, \* a stop or remove was in flight when the dispenser network was removed
    nw_declared,  \* the [[network]] entries of the configuration, in order
    nw_runtime,  \* the names of the networks the runtime holds
    nw_at_start,  \* the networks the runtime held when the first construction began
    nw_inspect_errors,  \* the names whose inspect call the runtime fails
    nw_calls,  \* the create and remove calls issued, as <<verb, name>>
    nw_pc, \* boot, built, failed or exited
    px_is_ssl,  \* DispenserProxy.is_ssl of the listener that took the request
    px_strategy,  \* DispenserProxy.strategy
    px_path,  \* the request path, as its segments
    px_files,  \* the token files in .dispenser/challenges
    px_routed,  \* whether resolve_route finds an upstream for the request
    px_answer, \* what the proxy did with the request
    co_main,  \* where the coordinator (main) stands
    co_permit,  \* per Notify: "none", "stored" (permit kept) or "handed" (given to the select's waiter)
    co_burst,  \* history: per Notify, the notify_one calls not yet consumed by a transition
    co_busy,  \* history: the Notifys raised while main was not in its select, not yet consumed
    co_last,  \* history: kind, burst and busy flag of the last transition main took
    co_raised,  \* history: the notify_one calls made so far
    co_enabled,  \* proxy_enabled, fixed at start
    co_gen,  \* the generation of the manager main holds
    co_chan,  \* the buffer of the ProxySignals channel (capacity 1)
    co_proxies,  \* the proxy threads in spawn order: state, the signal received, the manager served
    co_lockq, \* the FIFO of the receiver mutex: its head holds the lock
    ra_pc,  \* where main stands in the reload arm
    ra_polling,  \* the polling task main holds a handle of: its number and state
    ra_acme,  \* the ACME task main holds a handle of, if the proxy is enabled
    ra_built,  \* the result of the construction in the reload being handled
    ra_before,  \* history: the number of the polling task when the reload was taken
    ra_history,  \* history: the results of the reloads handled so far
    ra_signal,  \* the permit of reload_signal
    ra_proxy, \* proxy_enabled
    rn_pull,  \* the service's pull option
    rn_box,  \* the service's container in the runtime
    rn_faults,  \* the runtime calls that fail (with an error other than 404/304)
    rn_op,  \* the procedure that was executed: "run", "recreate" or "none"
    rn_before,  \* history: the container before the procedure
    rn_calls,  \* the runtime calls the procedure issued, in order
    rn_failed,  \* the calls that returned an error
    rn_result, \* what the procedure returned: "ok", "err" or "none"
    ce_simulate,  \* the --simulate flag
    ce_manual,  \* per routed host: which of cert_file and key_file its ProxySettings carry
    ce_managed,  \* per routed host: the files under .dispenser/certs
    ce_pc,  \* the certificate task: "idle" (asleep), "sweeping" or "dead" (panicked)
    ce_todo,  \* the hosts the running sweep has not visited yet
    ce_changed,  \* the sweep's local `changed`
    ce_sweep,  \* history of the sweep: managed files at its start, hosts attempted, hosts whose certificate was written, notify_one calls
    ce_sweeps,  \* the sweeps begun so far
    ce_permit,  \* the permit of proxy_restart_notify
    ce_main, \* main: the proxies spawned and the polling task it holds
    pr_services,  \* config.services: per loaded service name its depends_on map
    pr_manager, \* the instances of the manager from_config returned, by name, or None
    su_decl,  \* the declaration of the service in the manager main holds
    su_box,  \* the service's container
    su_alive,  \* whether the poll task of the service is alive
    su_init,  \* the poll loop's `init`
    su_plan,  \* the runtime calls the running poll has still to issue
    su_had,  \* whether the container existed when the running poll began
    su_main,  \* main: "select", "reload" (arm taken, tasks aborted) or "outer"
    su_reload,  \* the result of the last reload: "none", "ok" or "failed"
    su_before,  \* history: the container when the reload arm was taken
    su_cut,  \* history: the abort hit a poll between the remove and the create of a recreate of an existing container
    su_events  \* history: the triggers and reloads so far

genVars == <<holder, existing_ips, generation>>

routeVars == <<request, upstream>>

cronVars == <<schedule, now, next, pc, current, new_next, trues, cas_lost>>

lifeVars == <<containers, coord, polling_alive, first_tick, reload_notified,
              shutdown_notified, cancel_pending, last_reload, calls,
              changed_or_missing, held_before>>

handVars == <<main_at, polling_abort, old_poll, new_poll, diff_task, late_calls>>

startVars == <<declared, present, inspect_errors, main_startup>>

pollVars == <<svc, init_flag, poll_elapsed, cron_in, registry, local_image, last_digest, box, faults, fault_budget, tick>>

gateVars == <<depends_on, peer, gate_pc, todo, all_met, observed, own_calls, other_tick>>

fillVars == <<fill_pending, fill_used, fill_next, fill_assigned, fill_pc>>

watchVars == <<wd_last, wd_pc, wd_copy, wd_new, wd_log>>

diffVars == <<rr_self, rr_other, rr_exists, rr_required, rr_calls>>

verbVars == <<vb_box, vb_log>>

shutVars == <<sd_main, sd_abort, sd_poll, sd_task, sd_user_nets, sd_default_net, sd_overlap>>

netVars == <<nw_declared, nw_runtime, nw_at_start, nw_inspect_errors, nw_calls, nw_pc>>

proxyVars == <<px_is_ssl, px_strategy, px_path, px_files, px_routed, px_answer>>

coordVars == <<co_main, co_permit, co_burst, co_busy, co_last, co_raised, co_enabled, co_gen, co_chan, co_proxies, co_lockq>>

armVars == <<ra_pc, ra_polling, ra_acme, ra_built, ra_before, ra_history, ra_signal, ra_proxy>>

runVars == <<rn_pull, rn_box, rn_faults, rn_op, rn_before, rn_calls, rn_failed, rn_result>>

certVars == <<ce_simulate, ce_manual, ce_managed, ce_pc, ce_todo, ce_changed, ce_sweep, ce_sweeps, ce_permit, ce_main>>

pruneVars == <<pr_services, pr_manager>>

survVars == <<su_decl, su_box, su_alive, su_init, su_plan, su_had, su_main, su_reload, su_before, su_cut, su_events>>

restVars == <<handVars, startVars, pollVars, gateVars, fillVars, watchVars, diffVars, verbVars, shutVars, netVars, proxyVars, coordVars, armVars, runVars, certVars, pruneVars, survVars>>

outsideSurv == <<genVars, routeVars, cronVars, lifeVars, handVars, startVars, pollVars, gateVars, fillVars, watchVars, diffVars, verbVars, shutVars, netVars, proxyVars, coordVars, armVars, runVars, certVars, pruneVars>>

outsidePrune == <<genVars, routeVars, cronVars, lifeVars, handVars, startVars, pollVars, gateVars, fillVars, watchVars, diffVars, verbVars, shutVars, netVars, proxyVars, coordVars, armVars, runVars, certVars, survVars>>

outsideCert == <<genVars, routeVars, cronVars, lifeVars, handVars, startVars, pollVars, gateVars, fillVars, watchVars, diffVars, verbVars, shutVars, netVars, proxyVars, coordVars, armVars, runVars, pruneVars, survVars>>

outsideRun == <<genVars, routeVars, cronVars, lifeVars, handVars, startVars, pollVars, gateVars, fillVars, watchVars, diffVars, verbVars, shutVars, netVars, proxyVars, coordVars, armVars, certVars, pruneVars, survVars>>

outsideArm == <<genVars, routeVars, cronVars, lifeVars, handVars, startVars, pollVars, gateVars, fillVars, watchVars, diffVars, verbVars, shutVars, netVars, proxyVars, coordVars, runVars, certVars, pruneVars, survVars>>

outsideCoord == <<genVars, routeVars, cronVars, lifeVars, handVars, startVars, pollVars, gateVars, fillVars, watchVars, diffVars, verbVars, shutVars, netVars, proxyVars, armVars, runVars, certVars, pruneVars, survVars>>

outsideProxy == <<genVars, routeVars, cronVars, lifeVars, handVars, startVars, pollVars, gateVars, fillVars, watchVars, diffVars, verbVars, shutVars, netVars, coordVars, armVars, runVars, certVars, pruneVars, survVars>>

outsideNet == <<genVars, routeVars, cronVars, lifeVars, handVars, startVars, pollVars, gateVars, fillVars, watchVars, diffVars, verbVars, shutVars, proxyVars, coordVars, armVars, runVars, certVars, pruneVars, survVars>>

outsideShut == <<genVars, routeVars, cronVars, lifeVars, handVars, startVars, pollVars, gateVars, fillVars, watchVars, diffVars, verbVars, netVars, proxyVars, coordVars, armVars, runVars, certVars, pruneVars, survVars>>

outsideVerb == <<genVars, routeVars, cronVars, lifeVars, handVars, startVars, pollVars, gateVars, fillVars, watchVars, diffVars, shutVars, netVars, proxyVars, coordVars, armVars, runVars, certVars, pruneVars, survVars>>

outsideDiff == <<genVars, routeVars, cronVars, lifeVars, handVars, startVars, pollVars, gateVars, fillVars, watchVars, verbVars, shutVars, netVars, proxyVars, coordVars, armVars, runVars, certVars, pruneVars, survVars>>

outsideWatch == <<genVars, routeVars, cronVars, lifeVars, handVars, startVars, pollVars, gateVars, fillVars, diffVars, verbVars, shutVars, netVars, proxyVars, coordVars, armVars, runVars, certVars, pruneVars, survVars>>

outsideFill == <<genVars, routeVars, cronVars, lifeVars, handVars, startVars, pollVars, gateVars, watchVars, diffVars, verbVars, shutVars, netVars, proxyVars, coordVars, armVars, runVars, certVars, pruneVars, survVars>>

outsideGate == <<genVars, routeVars, cronVars, lifeVars, handVars, startVars, pollVars, fillVars, watchVars, diffVars, verbVars, shutVars, netVars, proxyVars, coordVars, armVars, runVars, certVars, pruneVars, survVars>>

outsidePoll == <<genVars, routeVars, cronVars, lifeVars, handVars, startVars, gateVars, fillVars, watchVars, diffVars, verbVars, shutVars, netVars, proxyVars, coordVars, armVars, runVars, certVars, pruneVars, survVars>>

outsideStart == <<genVars, routeVars, cronVars, lifeVars, handVars, pollVars, gateVars, fillVars, watchVars, diffVars, verbVars, shutVars, netVars, proxyVars, coordVars, armVars, runVars, certVars, pruneVars, survVars>>

outsideHand == <<genVars, routeVars, cronVars, lifeVars, startVars, pollVars, gateVars, fillVars, watchVars, diffVars, verbVars, shutVars, netVars, proxyVars, coordVars, armVars, runVars, certVars, pruneVars, survVars>>

vars == <<holder, existing_ips, generation, request, upstream,
          schedule, now, next, pc, current, new_next, trues, cas_lost,
          containers, coord, polling_alive, first_tick, reload_notified,
          shutdown_notified, cancel_pending, last_reload, calls,
          changed_or_missing, held_before, restVars>>

(***************************************************************************)
(* Helpers on sequences and maps (HashMap as a function).                  *)
(***************************************************************************)
EmptyMap == [x \in {} |-> 0]

Put(f, k, v) == [x \in DOMAIN f \cup {k} |-> IF x = k THEN v ELSE f[x]]

Range(s) == {s[i] : i \in DOMAIN s}

SeqsUpTo(S, n) == UNION {[1..k -> S] : k \in 0..n}

Perms(n) == {p \in [1..n -> 1..n] : \A i, j \in 1..n : p[i] = p[j] => i = j}

(***************************************************************************)
(* allocate_ips: Reserve then Fill.                                        *)
(***************************************************************************)
RECURSIVE ReservePhase(_, _, _, _)
ReservePhase(services, existing, i, acc) ==
    IF i > Len(services) THEN acc
    ELSE LET service_name == services[i].name IN
         IF service_name \in DOMAIN existing
         THEN ReservePhase(services, existing, i + 1,
                  [assigned |-> Put(acc.assigned, service_name, existing[service_name]),
                   used_ips |-> acc.used_ips \cup {existing[service_name]}])
         ELSE ReservePhase(services, existing, i + 1, acc)

\* Mutant of FindCandidate: the candidate is taken without looking at used_ips.
FindCandidate_unchecked(used_ips, next_offset) ==
    IF next_offset + 1 > SubnetLimit
    THEN [panic |-> TRUE, ip |-> 0, next_offset |-> next_offset + 1]
    ELSE [panic |-> FALSE, ip |-> next_offset, next_offset |-> next_offset + 1]

\* The inner loop of the fill phase: the next candidate not in used_ips.
RECURSIVE FindCandidate(_, _)
FindCandidate(used_ips, next_offset) ==
    LET candidate_ip == next_offset
        bumped == next_offset + 1
    IN  IF bumped > SubnetLimit
        THEN [panic |-> TRUE, ip |-> 0, next_offset |-> bumped]
        ELSE IF candidate_ip \notin used_ips
        THEN [panic |-> FALSE, ip |-> candidate_ip, next_offset |-> bumped]
        ELSE FindCandidate(used_ips, bumped)

RECURSIVE FillPhase(_, _, _)
FillPhase(services, i, acc) ==
    IF i > Len(services) \/ acc.panic THEN acc
    ELSE LET service_name == services[i].name IN
         IF service_name \in DOMAIN acc.assigned
         THEN FillPhase(services, i + 1, acc)
         ELSE LET found == FindCandidate(acc.used_ips, acc.next_offset) IN
              IF found.panic
              THEN [acc EXCEPT !.panic = TRUE]
              ELSE FillPhase(services, i + 1,
                       [assigned    |-> Put(acc.assigned, service_name, found.ip),
                        used_ips    |-> acc.used_ips \cup {found.ip},
                        next_offset |-> found.next_offset,
                        panic       |-> FALSE])

\* Mutant of allocate_ips: no reserve phase, every service is filled afresh.
allocate_ips_no_reserve(services, existing_opt) ==
    FillPhase(services, 1,
        [assigned    |-> EmptyMap,
         used_ips    |-> {GatewayOffset},
         next_offset |-> FirstOffset,
         panic       |-> FALSE])

\* Mutant of allocate_ips: the fill starts at the base address instead of
\* two above it.
allocate_ips_from_base(services, existing_opt) ==
    LET existing == IF existing_opt.some THEN existing_opt.val ELSE EmptyMap
        reserved == ReservePhase(services, existing, 1,
                        [assigned |-> EmptyMap, used_ips |-> {GatewayOffset}])
    IN  FillPhase(services, 1,
            [assigned    |-> reserved.assigned,
             used_ips    |-> reserved.used_ips,
             next_offset |-> 0,
             panic       |-> FALSE])

\* existing_ips is None or a map; unwrap_or_default gives the empty map.
allocate_ips(services, existing_opt) ==
    LET existing == IF existing_opt.some THEN existing_opt.val ELSE EmptyMap
        reserved == ReservePhase(services, existing, 1,
                        [assigned |-> EmptyMap, used_ips |-> {GatewayOffset}])
    IN  FillPhase(services, 1,
            [assigned    |-> reserved.assigned,
             used_ips    |-> reserved.used_ips,
             next_offset |-> FirstOffset,
             panic       |-> FALSE])


(***************************************************************************)
(* Paths are sequences of one-character strings.                           *)
(***************************************************************************)
Slash == "/"

starts_with(s, prefix) ==
    /\ Len(prefix) <= Len(s)
    /\ \A i \in 1..Len(prefix) : s[i] = prefix[i]

\* normalize_path(path: Option<&str>)
normalize_path(path_opt) ==
    LET path == IF path_opt.some THEN path_opt.val ELSE <<Slash>> IN
    IF path = <<>> THEN <<Slash>>
    ELSE LET lead == IF path[1] # Slash THEN <<Slash>> \o path ELSE path IN
         IF Len(lead) > 1 /\ lead[Len(lead)] = Slash
         THEN SubSeq(lead, 1, Len(lead) - 1)
         ELSE lead

(***************************************************************************)
(* ServiceInstance and ServicesManager::from_config.                       *)
(* A service file is [name, ver, initialize, pull, proxy]: ver stands for  *)
(* the rest of the declaration's content (image, env, ports, ...), proxy   *)
(* is None or Some([host, path, service_port]).                                  *)
(***************************************************************************)
ServiceInstance(service_file, assigned_ip) ==
    [config |-> [name        |-> service_file.name,
                 ver         |-> service_file.ver,
                 initialize  |-> service_file.initialize,
                 pull        |-> service_file.pull,
                 proxy       |-> service_file.proxy,
                 assigned_ip |-> assigned_ip]]

\* ServiceInstance::get_socket_addr
get_socket_addr(instance) ==
    IF instance.config.proxy.some
    THEN Some([ip   |-> instance.config.assigned_ip,
               port |-> instance.config.proxy.val.service_port])
    ELSE None

\* routes.sort_by(|a, b| b.path.len().cmp(&a.path.len())): a stable sort,
\* longest path first.
RECURSIVE SortRoutes(_)
SortRoutes(routes) ==
    IF routes = <<>> THEN <<>>
    ELSE LET n      == Len(routes)
             last   == routes[n]
             sorted == SortRoutes(SubSeq(routes, 1, n - 1))
             \* last goes behind every route at least as long as it
             keep   == Cardinality({i \in 1..Len(sorted) :
                                       Len(sorted[i].path) >= Len(last.path)})
         IN  SubSeq(sorted, 1, keep) \o <<last>> \o SubSeq(sorted, keep + 1, Len(sorted))

\* Mutant of RouteIndex: the index of the service in the configuration (the
\* order in which the tasks were spawned).
RouteIndex_spawn_order(order, k) == order[k] - 1

\* The index a joined task's instance gets: the number of tasks joined before it.
RouteIndex(order, k) == k - 1

\* The join loop: the k-th task to complete is that of services[order[k]].
RECURSIVE JoinLoop(_, _, _, _, _)
JoinLoop(services, assigned, order, k, acc) ==
    IF k > Len(services) THEN acc
    ELSE LET service_file == services[order[k]]
             instance     == ServiceInstance(service_file, assigned[service_file.name])
             index        == RouteIndex(order, k)
             router       ==
                 IF ~service_file.proxy.some THEN acc.router
                 ELSE LET host   == service_file.proxy.val.host
                          path   == normalize_path(service_file.proxy.val.path)
                          routes == IF host \in DOMAIN acc.router
                                    THEN acc.router[host] ELSE <<>>
                      IN  Put(acc.router, host,
                              Append(routes, [path |-> path, service_index |-> index]))
         IN  JoinLoop(services, assigned, order, k + 1,
                 [service_names |-> Append(acc.service_names, service_file.name),
                  instances     |-> Append(acc.instances, instance),
                  router        |-> router])

\* ServicesManager::from_config(config, existing_ips); order is the order in
\* which the per-service construction tasks complete.
from_config(services, existing_opt, order) ==
    LET assigned_ips == allocate_ips(services, existing_opt).assigned
        joined       == JoinLoop(services, assigned_ips, order, 1,
                            [service_names |-> <<>>, instances |-> <<>>,
                             router |-> EmptyMap])
    IN  [service_names |-> joined.service_names,
         instances     |-> joined.instances,
         router        |-> [h \in DOMAIN joined.router |-> SortRoutes(joined.router[h])]]

\* ServicesManager::get_ip_map
get_ip_map(manager) ==
    [n \in Range(manager.service_names) |->
        LET i == CHOOSE i \in DOMAIN manager.service_names :
                     /\ manager.service_names[i] = n
                     /\ \A j \in DOMAIN manager.service_names :
                            manager.service_names[j] = n => j <= i
        IN  manager.instances[i].config.assigned_ip]

(***************************************************************************)
(* Generations of the manager: the initial construction and the reloads.   *)
(***************************************************************************)
PlainService(n) ==
    [name |-> n, ver |-> 1, initialize |-> "immediately", pull |-> "on_startup",
     proxy |-> None]

PlainConfigs == {[i \in DOMAIN s |-> PlainService(s[i])] : s \in SeqsUpTo(Names, MaxServices)}

InitManager ==
    /\ holder = None
    /\ existing_ips = None
    /\ generation = "boot"

InitRoute ==
    /\ request = None
    /\ upstream = None

\* No cron watcher is in play.
NoCron ==
    /\ schedule = {}
    /\ now = 0
    /\ next = 0
    /\ pc = EmptyMap
    /\ current = EmptyMap
    /\ new_next = EmptyMap
    /\ trues = EmptyMap
    /\ cas_lost = {}

\* No coordinator and no runtime are in play.
NoLife ==
    /\ containers = EmptyMap
    /\ coord = "boot"
    /\ polling_alive = FALSE
    /\ first_tick = <<>>
    /\ reload_notified = FALSE
    /\ shutdown_notified = FALSE
    /\ cancel_pending = FALSE
    /\ last_reload = "none"
    /\ calls = {}
    /\ changed_or_missing = {}
    /\ held_before = None

NoHand ==
    /\ main_at = "none"
    /\ polling_abort = "none"
    /\ old_poll = EmptyMap
    /\ new_poll = EmptyMap
    /\ diff_task = EmptyMap
    /\ late_calls = {}

NoStart ==
    /\ declared = <<>>
    /\ present = {}
    /\ inspect_errors = {}
    /\ main_startup = "none"

NoPoll ==
    /\ svc = None
    /\ init_flag = FALSE
    /\ poll_elapsed = 0
    /\ cron_in = 0
    /\ registry = 0
    /\ local_image = 0
    /\ last_digest = 0
    /\ box = None
    /\ faults = {}
    /\ fault_budget = 0
    /\ tick = None

NoGate ==
    /\ depends_on = EmptyMap
    /\ peer = EmptyMap
    /\ gate_pc = "none"
    /\ todo = {}
    /\ all_met = TRUE
    /\ observed = EmptyMap
    /\ own_calls = {}
    /\ other_tick = 0

NoFill ==
    /\ fill_pending = <<>>
    /\ fill_used = {}
    /\ fill_next = 0
    /\ fill_assigned = EmptyMap
    /\ fill_pc = "none"

NoWatch ==
    /\ wd_last = None
    /\ wd_pc = "none"
    /\ wd_copy = None
    /\ wd_new = None
    /\ wd_log = <<>>

NoDiff ==
    /\ rr_self = None
    /\ rr_other = None
    /\ rr_exists = FALSE
    /\ rr_required = None
    /\ rr_calls = {}

NoVerb ==
    /\ vb_box = "none"
    /\ vb_log = <<>>

NoShut ==
    /\ sd_main = "none"
    /\ sd_abort = "none"
    /\ sd_poll = EmptyMap
    /\ sd_task = EmptyMap
    /\ sd_user_nets = {}
    /\ sd_default_net = FALSE
    /\ sd_overlap = FALSE

NoNet ==
    /\ nw_declared = <<>>
    /\ nw_runtime = {}
    /\ nw_at_start = {}
    /\ nw_inspect_errors = {}
    /\ nw_calls = {}
    /\ nw_pc = "none"

NoProxy ==
    /\ px_is_ssl = FALSE
    /\ px_strategy = "none"
    /\ px_path = <<>>
    /\ px_files = {}
    /\ px_routed = FALSE
    /\ px_answer = "none"

NoCoord ==
    /\ co_main = "none"
    /\ co_permit = <<>>
    /\ co_burst = <<>>
    /\ co_busy = {}
    /\ co_last = None
    /\ co_raised = 0
    /\ co_enabled = FALSE
    /\ co_gen = 0
    /\ co_chan = <<>>
    /\ co_proxies = <<>>
    /\ co_lockq = <<>>

NoArm ==
    /\ ra_pc = "none"
    /\ ra_polling = <<>>
    /\ ra_acme = <<>>
    /\ ra_built = "none"
    /\ ra_before = 0
    /\ ra_history = <<>>
    /\ ra_signal = FALSE
    /\ ra_proxy = FALSE

NoRun ==
    /\ rn_pull = "none"
    /\ rn_box = <<>>
    /\ rn_faults = {}
    /\ rn_op = "none"
    /\ rn_before = <<>>
    /\ rn_calls = <<>>
    /\ rn_failed = {}
    /\ rn_result = "none"

NoCert ==
    /\ ce_simulate = FALSE
    /\ ce_manual = <<>>
    /\ ce_managed = <<>>
    /\ ce_pc = "none"
    /\ ce_todo = {}
    /\ ce_changed = FALSE
    /\ ce_sweep = <<>>
    /\ ce_sweeps = 0
    /\ ce_permit = FALSE
    /\ ce_main = <<>>

NoPrune ==
    /\ pr_services = <<>>
    /\ pr_manager = None

NoSurv ==
    /\ su_decl = <<>>
    /\ su_box = <<>>
    /\ su_alive = FALSE
    /\ su_init = FALSE
    /\ su_plan = <<>>
    /\ su_had = FALSE
    /\ su_main = "none"
    /\ su_reload = "none"
    /\ su_before = <<>>
    /\ su_cut = FALSE
    /\ su_events = 0

\* The variables of the later specifications are not in play, except those
\* of the one named.
NoRestExcept(group) ==
    /\ IF group = "handVars" THEN TRUE ELSE NoHand
    /\ IF group = "startVars" THEN TRUE ELSE NoStart
    /\ IF group = "pollVars" THEN TRUE ELSE NoPoll
    /\ IF group = "gateVars" THEN TRUE ELSE NoGate
    /\ IF group = "fillVars" THEN TRUE ELSE NoFill
    /\ IF group = "watchVars" THEN TRUE ELSE NoWatch
    /\ IF group = "diffVars" THEN TRUE ELSE NoDiff
    /\ IF group = "verbVars" THEN TRUE ELSE NoVerb
    /\ IF group = "shutVars" THEN TRUE ELSE NoShut
    /\ IF group = "netVars" THEN TRUE ELSE NoNet
    /\ IF group = "proxyVars" THEN TRUE ELSE NoProxy
    /\ IF group = "coordVars" THEN TRUE ELSE NoCoord
    /\ IF group = "armVars" THEN TRUE ELSE NoArm
    /\ IF group = "runVars" THEN TRUE ELSE NoRun
    /\ IF group = "certVars" THEN TRUE ELSE NoCert
    /\ IF group = "pruneVars" THEN TRUE ELSE NoPrune
    /\ IF group = "survVars" THEN TRUE ELSE NoSurv

NoRest == NoRestExcept("none")

InitGen == InitManager /\ InitRoute /\ NoCron /\ NoLife /\ NoRest

\* main: ServicesManager::from_config(service_manager_config, None)
InitialGeneration ==
    /\ generation = "boot"
    /\ \E services \in PlainConfigs : \E order \in Perms(Len(services)) :
           holder' = from_config(services, None, order)
    /\ existing_ips' = None
    /\ generation' = "initial"
    /\ UNCHANGED <<routeVars, cronVars, lifeVars, restVars>>

\* reload: from_config(new_config, Some(old_manager.get_ip_map()))
ReloadGeneration ==
    /\ generation # "boot"
    /\ \E services \in PlainConfigs : \E order \in Perms(Len(services)) :
           holder' = from_config(services, Some(get_ip_map(holder)), order)
    /\ existing_ips' = Some(get_ip_map(holder))
    /\ generation' = "reloaded"
    /\ UNCHANGED <<routeVars, cronVars, lifeVars, restVars>>

NextGen == InitialGeneration \/ ReloadGeneration

SpecGen == InitGen /\ [][NextGen]_vars


(***************************************************************************)
(* ServicesManager::resolve_route.                                         *)
(***************************************************************************)
\* Mutant of is_match: a plain prefix test, no look at the next character.
is_match_any_prefix(route_path, path) ==
    route_path = <<Slash>> \/ path = route_path \/ starts_with(path, route_path)

is_match(route_path, path) ==
    IF route_path = <<Slash>> \/ path = route_path THEN TRUE
    ELSE IF starts_with(path, route_path)
    THEN \* path.as_bytes().get(route.path.len()) == Some(&b'/')
         /\ Len(path) > Len(route_path)
         /\ path[Len(route_path) + 1] = Slash
    ELSE FALSE

RECURSIVE FirstMatch(_, _, _)
FirstMatch(routes, path, i) ==
    IF i > Len(routes) THEN None
    ELSE IF is_match(routes[i].path, path) THEN Some(routes[i])
    ELSE FirstMatch(routes, path, i + 1)

resolve_route(manager, host, path_in) ==
    LET path == IF path_in = <<>> THEN <<Slash>> ELSE path_in IN
    IF host \in DOMAIN manager.router
    THEN LET found == FirstMatch(manager.router[host], path, 1) IN
         IF found.some
         THEN get_socket_addr(manager.instances[found.val.service_index + 1])
         ELSE None
    ELSE None

(***************************************************************************)
(* Routing: a manager built from services with proxy blocks, and one       *)
(* request resolved on it.                                                 *)
(***************************************************************************)
MaxPathLen == 4

PathChars == {Slash, "a", "-"}

RequestPaths == SeqsUpTo(PathChars, MaxPathLen)

RequestHosts == {"h1", "h3"}

RouteNames == <<"a", "b", "c">>

RawPaths == {None, Some(<<>>), Some(<<"a">>), Some(<<Slash, "a", Slash>>),
             Some(<<Slash, "a", Slash, "a">>)}

ProxyBlocks ==
    {None}
    \cup {Some([host |-> "h1", path |-> p, service_port |-> 80]) : p \in RawPaths}
    \cup {Some([host |-> "h2", path |-> None, service_port |-> 81])}

ProxyService(n, proxy) ==
    [name |-> n, ver |-> 1, initialize |-> "immediately", pull |-> "on_startup",
     proxy |-> proxy]

ProxyConfigs ==
    {[i \in DOMAIN RouteNames |-> ProxyService(RouteNames[i], blocks[i])] :
        blocks \in [DOMAIN RouteNames -> ProxyBlocks]}

BuildRouter ==
    /\ generation = "boot"
    /\ \E services \in ProxyConfigs : \E order \in Perms(Len(services)) :
           holder' = from_config(services, None, order)
    /\ existing_ips' = None
    /\ generation' = "initial"
    /\ UNCHANGED <<routeVars, cronVars, lifeVars, restVars>>

\* The proxy's upstream_peer: manager.resolve_route(host, path)
ResolveRoute ==
    /\ generation # "boot"
    /\ ~request.some
    /\ \E host \in RequestHosts : \E path \in RequestPaths :
           /\ request' = Some([host |-> host, path |-> path])
           /\ upstream' = resolve_route(holder, host, path)
    /\ UNCHANGED <<genVars, cronVars, lifeVars, restVars>>

NextRoute == BuildRouter \/ ResolveRoute

SpecRoute == InitGen /\ [][NextRoute]_vars

(***************************************************************************)
(* CronWatcher: one watcher, polled by several tasks.  A schedule is the   *)
(* set of instants at which it fires; the watcher is created at instant 0. *)
(***************************************************************************)
MaxTime == 3

NONE_TIMESTAMP == -2147483647

Pollers == {"p1", "p2"}

Instants == 1..MaxTime

\* schedule.upcoming(Local).next().map(|d| d.timestamp()).unwrap_or(NONE_TIMESTAMP):
\* the first occurrence after the clock's reading.
upcoming_next(sched, clock) ==
    LET later == {t \in sched : t > clock} IN
    IF later = {} THEN NONE_TIMESTAMP
    ELSE CHOOSE t \in later : \A u \in later : t <= u

\* Mutant of is_due: ready whatever the clock says.
is_due_always(clock, next_dt) == TRUE

\* chrono::Local::now() >= next
is_due(clock, next_dt) == clock >= next_dt

\* Mutant of compare_exchange: a plain store.
compare_exchange_store(value, expected, new) == [ok |-> TRUE, value |-> new]

\* AtomicI64::compare_exchange(current, new)
compare_exchange(value, expected, new) ==
    IF value = expected THEN [ok |-> TRUE, value |-> new]
    ELSE [ok |-> FALSE, value |-> value]

\* CronWatcher::new
InitCron ==
    /\ schedule \in SUBSET Instants
    /\ now = 0
    /\ next = upcoming_next(schedule, 0)
    /\ pc = [p \in Pollers |-> "idle"]
    /\ current = [p \in Pollers |-> 0]
    /\ new_next = [p \in Pollers |-> 0]
    /\ trues = [t \in Instants |-> 0]
    /\ cas_lost = {}

Return(p) ==
    /\ pc' = [pc EXCEPT ![p] = "idle"]
    /\ current' = [current EXCEPT ![p] = 0]
    /\ new_next' = [new_next EXCEPT ![p] = 0]

\* The clock advances.
Tick ==
    /\ now < MaxTime
    /\ now' = now + 1
    /\ UNCHANGED <<genVars, routeVars, lifeVars, restVars, schedule, next, pc, current, new_next, trues, cas_lost>>

\* is_ready: let current = self.next.load(); return false on the sentinel.
Load(p) ==
    /\ pc[p] = "idle"
    /\ IF next = NONE_TIMESTAMP
       THEN UNCHANGED <<pc, current>>
       ELSE /\ pc' = [pc EXCEPT ![p] = "loaded"]
            /\ current' = [current EXCEPT ![p] = next]
    /\ UNCHANGED <<genVars, routeVars, lifeVars, restVars, schedule, now, next, new_next, trues, cas_lost>>

\* is_ready: Some(next) if chrono::Local::now() >= next, else return false.
CheckDue(p) ==
    /\ pc[p] = "loaded"
    /\ IF is_due(now, current[p])
       THEN /\ pc' = [pc EXCEPT ![p] = "due"]
            /\ UNCHANGED <<current, new_next>>
       ELSE Return(p)
    /\ UNCHANGED <<genVars, routeVars, lifeVars, restVars, schedule, now, next, trues, cas_lost>>

\* is_ready: let new_next = self.schedule.upcoming(Local).next()...
ComputeNext(p) ==
    /\ pc[p] = "due"
    /\ pc' = [pc EXCEPT ![p] = "computed"]
    /\ new_next' = [new_next EXCEPT ![p] = upcoming_next(schedule, now)]
    /\ UNCHANGED <<genVars, routeVars, lifeVars, restVars, schedule, now, next, current, trues, cas_lost>>

\* is_ready: self.next.compare_exchange(current, new_next).is_ok()
CompareExchange(p) ==
    /\ pc[p] = "computed"
    /\ LET cas == compare_exchange(next, current[p], new_next[p]) IN
       /\ next' = cas.value
       /\ IF cas.ok
          THEN /\ trues' = [trues EXCEPT ![current[p]] = @ + 1]
               /\ UNCHANGED cas_lost
          ELSE /\ cas_lost' = cas_lost \cup {current[p]}
               /\ UNCHANGED trues
    /\ Return(p)
    /\ UNCHANGED <<genVars, routeVars, lifeVars, restVars, schedule, now>>

NextCron ==
    \/ Tick
    \/ \E p \in Pollers : Load(p) \/ CheckDue(p) \/ ComputeNext(p) \/ CompareExchange(p)

InitCronWatcher == InitManager /\ InitRoute /\ InitCron /\ NoLife /\ NoRest

SpecCron == InitCronWatcher /\ [][NextCron]_vars

(***************************************************************************)
(* The container runtime, as the instance's calls see it.  A runtime value *)
(* is [containers, calls]: the containers by name and the calls issued.    *)
(* A container records the declaration content (ver) and the address it    *)
(* was created with.  Every call succeeds unless the container's absence   *)
(* or presence makes the runtime refuse it.                                *)
(***************************************************************************)
NoContainer == [exists |-> FALSE, ver |-> 0, ip |-> 0, running |-> FALSE]

Call(rt, verb, name) == [rt EXCEPT !.calls = @ \cup {<<verb, name>>}]

\* ServiceInstance::pull_image
pull_image(rt, instance) == Call(rt, "pull", instance.config.name)

\* ServiceInstance::stop_container (404 and 304 are success)
stop_container(rt, instance) ==
    LET name == instance.config.name IN
    [Call(rt, "stop", name) EXCEPT !.containers[name].running = FALSE]

\* ServiceInstance::remove_container (404 is success)
remove_container(rt, instance) ==
    LET name == instance.config.name IN
    [Call(rt, "remove", name) EXCEPT !.containers[name] = NoContainer]

\* ServiceInstance::create_container (the runtime refuses a name in use)
create_container(rt, instance) ==
    LET name == instance.config.name IN
    IF rt.containers[name].exists
    THEN Call(rt, "create", name)
    ELSE [Call(rt, "create", name) EXCEPT
              !.containers[name] = [exists  |-> TRUE,
                                    ver     |-> instance.config.ver,
                                    ip      |-> instance.config.assigned_ip,
                                    running |-> FALSE]]

\* docker.start_container (404 when the container is absent)
start_container(rt, instance) ==
    LET name == instance.config.name IN
    IF rt.containers[name].exists
    THEN [Call(rt, "start", name) EXCEPT !.containers[name].running = TRUE]
    ELSE Call(rt, "start", name)

\* ServiceInstance::recreate_container
recreate_container(rt, instance) ==
    create_container(
        remove_container(
            stop_container(pull_image(rt, instance), instance), instance), instance)

\* ServiceInstance::container_does_not_exist
container_does_not_exist(rt, instance) ==
    ~rt.containers[instance.config.name].exists

\* ServiceInstance::run_container (no depends_on: the gate passes at once)
run_container(rt, instance) ==
    LET ready == IF instance.config.pull = "always"
                    \/ container_does_not_exist(rt, instance)
                 THEN recreate_container(rt, instance)
                 ELSE rt
    IN  start_container(ready, instance)

\* ServiceInstance::poll for an instance without cron watcher and with
\* watch = false: only the startup branch can act.
poll(rt, instance, poll_images, init) ==
    IF init /\ instance.config.initialize = "immediately"
    THEN run_container(rt, instance)
    ELSE rt

\* Mutant of requires_recreate: the configurations are not compared.
requires_recreate_if_absent(rt, self, other) ==
    container_does_not_exist(rt, self)

\* ServiceInstance::requires_recreate
requires_recreate(rt, self, other) ==
    IF container_does_not_exist(rt, self) THEN TRUE
    ELSE self.config # other.config

\* ServiceInstance::recreate_if_required
recreate_if_required(rt, self, other) ==
    IF requires_recreate(rt, self, other)
    THEN recreate_container(rt, self)
    ELSE rt

(***************************************************************************)
(* ServicesManager: the reload diff, removal and shutdown.                 *)
(***************************************************************************)
\* .zip(..).find(|(o, _)| *o == name): the first instance of that name
FindInstance(manager, name) ==
    LET hits == {j \in DOMAIN manager.service_names : manager.service_names[j] = name}
    IN  IF hits = {} THEN None
        ELSE Some(manager.instances[CHOOSE j \in hits : \A k \in hits : j <= k])

\* ServicesManager::remove_containers
RECURSIVE remove_containers(_, _, _, _)
remove_containers(rt, manager, names, i) ==
    IF i > Len(manager.instances) THEN rt
    ELSE LET instance == manager.instances[i] IN
         remove_containers(
             IF instance.config.name \in names
             THEN remove_container(stop_container(rt, instance), instance)
             ELSE rt,
             manager, names, i + 1)

\* The recreation tasks of recreate_if_changed_and_cleanup, one per instance
\* of self; they act on different containers.
RECURSIVE RecreateTasks(_, _, _, _)
RecreateTasks(rt, self, other, i) ==
    IF i > Len(self.instances) THEN rt
    ELSE LET this_instance == self.instances[i]
             found         == FindInstance(other, this_instance.config.name)
         IN  RecreateTasks(
                 IF found.some
                 THEN recreate_if_required(rt, this_instance, found.val)
                 ELSE rt,
                 self, other, i + 1)

\* ServicesManager::recreate_if_changed_and_cleanup(&self, other)
recreate_if_changed_and_cleanup(rt, self, other) ==
    LET recreated        == RecreateTasks(rt, self, other, 1)
        removed_services == {n \in Range(self.service_names) :
                                n \notin Range(other.service_names)}
    IN  remove_containers(recreated, self, removed_services, 1)

\* ServicesManager::shutdown (the containers; the networks are not modelled here)
shutdown(rt, manager) ==
    remove_containers(rt, manager, Range(manager.service_names), 1)

(***************************************************************************)
(* The lifecycle loop of main: the select on the reload and shutdown       *)
(* notifications, the polling task of the current manager, and the reload  *)
(* of the manager.  The services have no cron schedule, no image watch and *)
(* no dependencies, so a poll acts on its first tick only.                 *)
(***************************************************************************)
LifeNames == <<"a", "b">>

\* Service a is declared with either content and either pull policy, service
\* b with one content and the default pull policy.
Versions(n) == IF n = "a" THEN {1, 2} ELSE {1}

Pulls(n) == IF n = "a" THEN {"always", "on_startup"} ELSE {"on_startup"}

LifeServices(n) ==
    [name : {n}, ver : Versions(n), initialize : {"immediately", "on_trigger"},
     pull : Pulls(n), proxy : {None}]

\* The configurations: every subset of LifeNames, each service with one of
\* its declarations, names unique.
RECURSIVE LifeConfigsFrom(_)
LifeConfigsFrom(k) ==
    IF k > Len(LifeNames) THEN {<<>>}
    ELSE LET rest == LifeConfigsFrom(k + 1) IN
         rest \cup {<<s>> \o r : s \in LifeServices(LifeNames[k]), r \in rest}

LifeConfigs == LifeConfigsFrom(1)

Identity(n) == [i \in 1..n |-> i]

Runtime == [containers |-> containers, calls |-> calls]

AllFirst(manager) == [i \in DOMAIN manager.instances |-> TRUE]

\* main up to the lifecycle loop: the manager is built from the configuration,
\* validate_containers_not_present has passed, the first polling task is
\* spawned and the loop waits in its select.
InitLife ==
    /\ \E services \in LifeConfigs :
           /\ holder = from_config(services, None, Identity(Len(services)))
           /\ first_tick = AllFirst(holder)
    /\ existing_ips = None
    /\ generation = "initial"
    /\ InitRoute
    /\ NoCron
    /\ containers = [n \in Names |-> NoContainer]
    /\ coord = "select"
    /\ polling_alive = TRUE
    /\ reload_notified = FALSE
    /\ shutdown_notified = FALSE
    /\ cancel_pending = FALSE
    /\ last_reload = "none"
    /\ calls = {}
    /\ changed_or_missing = {}
    /\ held_before = None
    /\ NoRest

\* The SIGHUP handler: reload_signal.notify_one()
SigHup ==
    /\ coord # "exited"
    /\ reload_notified' = TRUE
    /\ UNCHANGED <<genVars, routeVars, cronVars, restVars, containers, coord, polling_alive,
                   first_tick, shutdown_notified, cancel_pending, last_reload,
                   calls, changed_or_missing, held_before>>

\* The SIGINT handler: shutdown_signal.notify_one()
SigInt ==
    /\ coord # "exited"
    /\ shutdown_notified' = TRUE
    /\ UNCHANGED <<genVars, routeVars, cronVars, restVars, containers, coord, polling_alive,
                   first_tick, reload_notified, cancel_pending, last_reload,
                   calls, changed_or_missing, held_before>>

\* One tick of the polling loop of instance i: instance.poll(poll_images, init),
\* then init = false.
PollTick(i) ==
    /\ polling_alive
    /\ i \in DOMAIN holder.instances
    /\ LET rt == poll(Runtime, holder.instances[i], FALSE, first_tick[i]) IN
           /\ containers' = rt.containers
           /\ calls' = rt.calls
    /\ first_tick' = [first_tick EXCEPT ![i] = FALSE]
    /\ UNCHANGED <<genVars, routeVars, cronVars, restVars, coord, polling_alive,
                   reload_notified, shutdown_notified, cancel_pending,
                   last_reload, changed_or_missing, held_before>>

\* Mutant of AfterReloadError: a failed reload ends the process.
AfterReloadError_exit == "exited"

\* main: the error of reload_manager is logged, then `break`
AfterReloadError == "outer"

\* The names that are in both managers and whose declaration differs or
\* whose container is missing, taken from the declarations themselves.
ChangedOrMissing(services, manager) ==
    {n \in Range(manager.service_names) :
        \E k \in DOMAIN services :
            /\ services[k].name = n
            /\ LET was == FindInstance(manager, n).val.config IN
                   \/ ~containers[n].exists
                   \/ services[k].ver # was.ver
                   \/ services[k].initialize # was.initialize
                   \/ services[k].pull # was.pull}

\* The reload arm of the select, the new configuration being valid:
\* polling_handle.abort(), then reload_manager builds the new manager with
\* the addresses of the old one, cancels the old one, recreates what changed,
\* cleans up and stores the new manager in the holder; then `break`.
ReloadOk(services) ==
    /\ coord = "select"
    /\ reload_notified
    /\ reload_notified' = FALSE
    /\ polling_alive' = FALSE
    /\ LET new_manager == from_config(services, Some(get_ip_map(holder)),
                                      Identity(Len(services)))
           rt == recreate_if_changed_and_cleanup(
                     [containers |-> containers, calls |-> {}], new_manager, holder)
       IN  /\ holder' = new_manager
           /\ containers' = rt.containers
           /\ calls' = rt.calls
    /\ existing_ips' = Some(get_ip_map(holder))
    /\ generation' = "reloaded"
    /\ changed_or_missing' = ChangedOrMissing(services, holder)
    /\ held_before' = None
    /\ last_reload' = "ok"
    /\ coord' = "outer"
    /\ UNCHANGED <<routeVars, cronVars, restVars, first_tick, shutdown_notified, cancel_pending>>

\* The reload arm of the select, the new configuration being invalid:
\* polling_handle.abort(), reload_manager returns the error before it has
\* cancelled or replaced anything; then `break`.
ReloadFail ==
    /\ coord = "select"
    /\ reload_notified
    /\ reload_notified' = FALSE
    /\ polling_alive' = FALSE
    /\ calls' = {}
    /\ changed_or_missing' = {}
    /\ held_before' = Some(holder)
    /\ last_reload' = "failed"
    /\ coord' = AfterReloadError
    /\ UNCHANGED <<genVars, routeVars, cronVars, restVars, containers, first_tick,
                   shutdown_notified, cancel_pending>>

\* The head of the outer loop: the manager is read from the holder and its
\* start_polling is spawned (every instance starts with init = true).
SpawnPolling ==
    /\ coord = "outer"
    /\ polling_alive' = TRUE
    /\ first_tick' = AllFirst(holder)
    /\ coord' = "select"
    /\ UNCHANGED <<genVars, routeVars, cronVars, restVars, containers, reload_notified,
                   shutdown_notified, cancel_pending, last_reload, calls,
                   changed_or_missing, held_before>>

\* The shutdown arm of the select: abort, cancel, shutdown, exit.
HandleShutdown ==
    /\ coord = "select"
    /\ shutdown_notified
    /\ shutdown_notified' = FALSE
    /\ polling_alive' = FALSE
    /\ cancel_pending' = TRUE
    /\ LET rt == shutdown(Runtime, holder) IN
           /\ containers' = rt.containers
           /\ calls' = rt.calls
    /\ coord' = "exited"
    /\ UNCHANGED <<genVars, routeVars, cronVars, restVars, first_tick, reload_notified,
                   last_reload, changed_or_missing, held_before>>

NextLife ==
    \/ SigHup
    \/ SigInt
    \/ \E i \in 1..Len(LifeNames) : PollTick(i)
    \/ \E services \in LifeConfigs : ReloadOk(services)
    \/ ReloadFail
    \/ SpawnPolling
    \/ HandleShutdown

SpecLife == InitLife /\ [][NextLife]_vars

(***************************************************************************)
(* Properties of the generations (SpecGen).                                *)
(***************************************************************************)
InstanceIndices == DOMAIN holder.instances

Survives(i) ==
    /\ existing_ips.some
    /\ holder.instances[i].config.name \in DOMAIN existing_ips.val

\* C1: after every reload built with existing_ips = the outgoing manager's
\* get_ip_map(), each service declared in both generations has the
\* assigned_ip it had in the outgoing generation.
C1_IpContinuity ==
    generation = "reloaded" =>
        \A i \in InstanceIndices :
            Survives(i) =>
                holder.instances[i].config.assigned_ip
                    = existing_ips.val[holder.instances[i].config.name]

\* A reload that dropped a service, kept one at 172.28.0.3 and gave the
\* freed 172.28.0.2 to a newcomer.
C1_Witness ==
    /\ generation = "reloaded"
    /\ \E n \in DOMAIN existing_ips.val : n \notin Range(holder.service_names)
    /\ \E i, j \in InstanceIndices :
           /\ Survives(i)
           /\ holder.instances[i].config.assigned_ip = 3
           /\ ~Survives(j)
           /\ holder.instances[j].config.assigned_ip = 2

UniqueNames ==
    \A i, j \in DOMAIN holder.service_names :
        holder.service_names[i] = holder.service_names[j] => i = j

\* C2: in every generation (the initial one and every one after reloads)
\* whose declared service names are unique, the instances' assigned_ip
\* values are pairwise distinct.
C2_IpsDistinct ==
    (generation # "boot" /\ UniqueNames) =>
        \A i, j \in InstanceIndices :
            holder.instances[i].config.assigned_ip
                = holder.instances[j].config.assigned_ip => i = j

\* A generation after a reload in which the fill phase had to step over the
\* address reserved for a surviving service.
C2_Witness ==
    /\ generation = "reloaded"
    /\ UniqueNames
    /\ \E i, j \in InstanceIndices :
           /\ Survives(i)
           /\ holder.instances[i].config.assigned_ip = 2
           /\ ~Survives(j)
           /\ holder.instances[j].config.assigned_ip = 3


\* C20: no service is ever assigned the gateway address 172.28.0.1 nor the
\* network address 172.28.0.0, in the initial generation and in every
\* generation after any sequence of reloads; the addresses carried over to
\* a reload are free of them too.
C20_GatewayNeverAssigned ==
    /\ generation # "boot" =>
           \A i \in InstanceIndices :
               holder.instances[i].config.assigned_ip \notin {0, GatewayOffset}
    /\ existing_ips.some =>
           \A n \in DOMAIN existing_ips.val :
               existing_ips.val[n] \notin {0, GatewayOffset}

\* A reload in which the address next to the gateway was freed by a dropped
\* service and given to a newcomer.
C20_Witness ==
    /\ generation = "reloaded"
    /\ \E n \in DOMAIN existing_ips.val :
           /\ existing_ips.val[n] = FirstOffset
           /\ n \notin Range(holder.service_names)
    /\ \E j \in InstanceIndices :
           /\ ~Survives(j)
           /\ holder.instances[j].config.assigned_ip = FirstOffset

(***************************************************************************)
(* Properties of the router (SpecRoute).                                   *)
(***************************************************************************)
\* prefix matches path on whole path segments.
SegmentMatch(prefix, path) ==
    \/ prefix = <<Slash>>
    \/ /\ Len(prefix) <= Len(path)
       /\ SubSeq(path, 1, Len(prefix)) = prefix
       /\ (Len(path) = Len(prefix) \/ path[Len(prefix) + 1] = Slash)

RoutesOf(host) ==
    IF host \in DOMAIN holder.router THEN holder.router[host] ELSE <<>>

RouteInstance(route) == holder.instances[route.service_index + 1]

\* C7: resolve_route returns the upstream of the route with the longest
\* prefix among the host's routes that match the request path on whole
\* segments, and None when the host is unknown or no route matches.
C7_LongestSegmentPrefix ==
    request.some =>
        LET routes   == RoutesOf(request.val.host)
            matching == {i \in DOMAIN routes :
                            SegmentMatch(routes[i].path, request.val.path)}
            longest  == {i \in matching : \A j \in matching :
                            Len(routes[j].path) <= Len(routes[i].path)}
        IN  IF matching = {}
            THEN upstream = None
            ELSE \E i \in longest :
                     upstream = get_socket_addr(RouteInstance(routes[i]))

\* The request "/a-" on a host with the routes "/a" and "/": it goes to the
\* root route's instance, not to that of "/a".
C7_Witness ==
    /\ request.some
    /\ request.val.path = <<Slash, "a", "-">>
    /\ LET routes == RoutesOf(request.val.host) IN
       \E i, j \in DOMAIN routes :
           /\ routes[i].path = <<Slash, "a">>
           /\ routes[j].path = <<Slash>>
           /\ upstream = get_socket_addr(RouteInstance(routes[j]))
           /\ upstream # get_socket_addr(RouteInstance(routes[i]))

Declares(instance, host, prefix) ==
    /\ instance.config.proxy.some
    /\ instance.config.proxy.val.host = host
    /\ normalize_path(instance.config.proxy.val.path) = prefix

\* C8: whatever the completion order of the construction tasks, each route
\* (host, prefix, service_index) refers to the instance whose proxy block
\* declares that host and that normalized path, and a resolved upstream is
\* (assigned_ip, service_port) of an instance declaring a matching route.
C8_RouteRefersToItsInstance ==
    generation # "boot" =>
        /\ \A host \in DOMAIN holder.router :
               \A i \in DOMAIN holder.router[host] :
                   LET route == holder.router[host][i] IN
                   /\ route.service_index + 1 \in DOMAIN holder.instances
                   /\ Declares(RouteInstance(route), host, route.path)
        /\ upstream.some =>
               \E k \in DOMAIN holder.instances :
                   LET instance == holder.instances[k] IN
                   /\ instance.config.proxy.some
                   /\ instance.config.proxy.val.host = request.val.host
                   /\ SegmentMatch(normalize_path(instance.config.proxy.val.path),
                                   request.val.path)
                   /\ upstream.val.ip = instance.config.assigned_ip
                   /\ upstream.val.port = instance.config.proxy.val.service_port

\* The tasks completed in another order than they were spawned, and a
\* request was resolved to the instance that completed first.
C8_Witness ==
    /\ generation # "boot"
    /\ holder.service_names = <<"c", "a", "b">>
    /\ upstream.some
    /\ upstream = get_socket_addr(holder.instances[1])
    /\ \A k \in DOMAIN holder.instances : k # 1 =>
           upstream # get_socket_addr(holder.instances[k])


(***************************************************************************)
(* Properties of the cron watcher (SpecCron).                              *)
(***************************************************************************)
\* C9: for each stored value of next_fire_ts at most one is_ready call that
\* loaded it returns true; once a compare-and-swap has advanced the value,
\* no caller still holding the old value can succeed.
C9_AtMostOneConsumer ==
    /\ \A v \in Instants : trues[v] <= 1
    /\ \A p \in Pollers :
           (pc[p] # "idle" /\ trues[current[p]] >= 1) => next # current[p]

\* Two pollers loaded the same instant; one consumed it, the other lost the
\* compare-and-swap.
C9_Witness ==
    \E v \in Instants : trues[v] = 1 /\ v \in cas_lost

\* The watcher has moved past occurrence o.
PassedOver(o) == next = NONE_TIMESTAMP \/ o < next

\* C10 as stated: every occurrence of the schedule the watcher has moved
\* past was delivered exactly once (none twice, none skipped).
C10_ExactlyOncePerOccurrence ==
    \A o \in schedule : PassedOver(o) => trues[o] = 1

\* C10 as amended: an occurrence is delivered at most once and never before
\* it is due; it is skipped only if it was already past when the consuming
\* call read the clock to compute the next fire time.
C10_AtMostOnceWhenDue ==
    \A o \in Instants :
        /\ trues[o] >= 1 => (o \in schedule /\ o <= now /\ trues[o] = 1)
        /\ (o \in schedule /\ PassedOver(o) /\ trues[o] = 0) => o <= now

\* One occurrence was delivered and a later one was skipped.
C10_Witness ==
    \E o1, o2 \in schedule :
        /\ o1 < o2
        /\ trues[o1] = 1
        /\ trues[o2] = 0
        /\ PassedOver(o2)

(***************************************************************************)
(* Properties of the lifecycle loop (SpecLife).                            *)
(***************************************************************************)
\* The new generation has run the first polling tick of every instance and
\* no notification is pending.
Settled ==
    /\ coord = "select"
    /\ polling_alive
    /\ ~reload_notified
    /\ ~shutdown_notified
    /\ \A i \in DOMAIN first_tick : ~first_tick[i]

LiveContainers == {n \in Names : containers[n].exists}

VerbsOfRecreate == {"pull", "stop", "remove", "create"}

\* C3: after a reload has settled, the names of the containers existing in
\* the runtime are exactly the service names declared in the incoming
\* configuration.
C3_LiveEqualsDeclared ==
    (last_reload = "ok" /\ Settled) =>
        LiveContainers = Range(holder.service_names)

C5_FailedReloadTouchesNothing ==
    (last_reload = "failed" /\ coord # "exited") => calls = {}

\* C6: after a failed reload the holder keeps the manager it held before,
\* the process exits only through the shutdown arm, and the select is
\* entered again with the polling task of that manager running.
C6_FailedReloadKeepsManager ==
    last_reload = "failed" =>
        /\ held_before.some
        /\ holder = held_before.val
        /\ coord \in {"outer", "select", "exited"}
        /\ coord = "exited" => cancel_pending
        /\ coord = "select" => polling_alive

\* After a failed reload the loop waits in its select with polling running
\* for the kept manager, and a later reload signal has been recorded.
C6_Witness ==
    /\ last_reload = "failed"
    /\ coord = "select"
    /\ polling_alive
    /\ reload_notified
    /\ Len(holder.instances) = 2
    /\ \E i \in DOMAIN first_tick : ~first_tick[i]

(***************************************************************************)
(* The hand-over of the polling tasks at a reload.  main calls             *)
(* polling_handle.abort() and goes on to reload_manager without awaiting   *)
(* the handle.  abort() only requests the cancellation of the task that    *)
(* runs start_polling; the per-instance poll tasks live in the JoinSet     *)
(* owned by that task's future and are cancelled when the runtime drops    *)
(* it.  A cancelled task is dropped at a yield point (its sleep, or the    *)
(* await of a runtime call); a task that is being polled runs on to its    *)
(* next yield point.                                                       *)
(***************************************************************************)
HandNames == {"a", "b"}

\* Whether a poll task is still there and has begun a tick.
Acting(task) == task \in {"running", "in_call"}

HandEvery(v) == [n \in HandNames |-> v]

\* The select waits, the polling group of the held manager runs and a reload
\* notification is about to be consumed.
InitHand ==
    /\ InitManager /\ InitRoute /\ NoCron /\ NoLife
    /\ NoRestExcept("handVars")
    /\ main_at = "select"
    /\ polling_abort = "none"
    /\ old_poll = HandEvery("sleeping")
    /\ new_poll = HandEvery("none")
    /\ diff_task = HandEvery("none")
    /\ late_calls = {}

\* start_polling loop: the sleep ends and instance.poll begins.
OldWake(n) ==
    /\ old_poll[n] = "sleeping"
    /\ polling_abort # "propagated"
    /\ old_poll' = [old_poll EXCEPT ![n] = "running"]
    /\ UNCHANGED <<outsideHand, main_at, polling_abort, new_poll, diff_task, late_calls>>

\* instance.poll of the outgoing generation issues a runtime call for its
\* container and awaits the answer.
OldIssue(n) ==
    /\ old_poll[n] = "running"
    /\ old_poll' = [old_poll EXCEPT ![n] = "in_call"]
    /\ late_calls' = IF main_at = "diff" \/ Acting(new_poll[n])
                     THEN late_calls \cup {n} ELSE late_calls
    /\ UNCHANGED <<outsideHand, main_at, polling_abort, new_poll, diff_task>>

\* The answer arrives: the poll goes on to its next call, or the tick is
\* over and the task sleeps.
OldReturn(n) ==
    /\ old_poll[n] = "in_call"
    /\ polling_abort # "propagated"
    /\ \E then \in {"running", "sleeping"} :
           old_poll' = [old_poll EXCEPT ![n] = then]
    /\ UNCHANGED <<outsideHand, main_at, polling_abort, new_poll, diff_task, late_calls>>

\* The cancelled poll task is dropped at its yield point.
OldDrop(n) ==
    /\ polling_abort = "propagated"
    /\ old_poll[n] \in {"sleeping", "in_call"}
    /\ old_poll' = [old_poll EXCEPT ![n] = "dropped"]
    /\ UNCHANGED <<outsideHand, main_at, polling_abort, new_poll, diff_task, late_calls>>

\* main, reload arm: polling_handle.abort(); reload_manager begins.
AbortPolling ==
    /\ main_at = "select"
    /\ main_at' = "reloading"
    /\ polling_abort' = "requested"
    /\ UNCHANGED <<outsideHand, old_poll, new_poll, diff_task, late_calls>>

\* The runtime drops the future of start_polling and with it the JoinSet:
\* every poll task is now cancelled.
DropPollingFuture ==
    /\ polling_abort = "requested"
    /\ polling_abort' = "propagated"
    /\ UNCHANGED <<outsideHand, main_at, old_poll, new_poll, diff_task, late_calls>>

\* reload_manager has built the incoming manager and enters
\* recreate_if_changed_and_cleanup: one recreation task per instance.
BeginDiff ==
    /\ main_at = "reloading"
    /\ main_at' = "diff"
    /\ diff_task' = HandEvery("spawned")
    /\ UNCHANGED <<outsideHand, polling_abort, old_poll, new_poll, late_calls>>

\* A recreation task inspects and recreates its container, then ends.
DiffStep(n) ==
    /\ main_at = "diff"
    /\ diff_task[n] \in {"spawned", "in_call"}
    /\ diff_task' = [diff_task EXCEPT
                        ![n] = IF @ = "spawned" THEN "in_call" ELSE "done"]
    /\ UNCHANGED <<outsideHand, main_at, polling_abort, old_poll, new_poll, late_calls>>

\* All recreation tasks are joined, the manager is stored, main breaks to
\* the outer loop.
EndDiff ==
    /\ main_at = "diff"
    /\ \A n \in HandNames : diff_task[n] = "done"
    /\ main_at' = "outer"
    /\ UNCHANGED <<outsideHand, polling_abort, old_poll, new_poll, diff_task, late_calls>>

\* Outer loop head: start_polling of the incoming manager is spawned.
SpawnIncoming ==
    /\ main_at = "outer"
    /\ main_at' = "serving"
    /\ new_poll' = HandEvery("running")
    /\ UNCHANGED <<outsideHand, polling_abort, old_poll, diff_task, late_calls>>

\* A poll task of the incoming generation: call, answer, sleep, wake.
NewStep(n) ==
    /\ new_poll[n] # "none"
    /\ \E then \in CASE new_poll[n] = "running"  -> {"in_call", "sleeping"}
                     [] new_poll[n] = "in_call"  -> {"running"}
                     [] new_poll[n] = "sleeping" -> {"running"} :
           new_poll' = [new_poll EXCEPT ![n] = then]
    /\ UNCHANGED <<outsideHand, main_at, polling_abort, old_poll, diff_task, late_calls>>

NextHand ==
    \/ \E n \in HandNames : OldWake(n)
    \/ \E n \in HandNames : OldIssue(n)
    \/ \E n \in HandNames : OldReturn(n)
    \/ \E n \in HandNames : OldDrop(n)
    \/ AbortPolling
    \/ DropPollingFuture
    \/ BeginDiff
    \/ \E n \in HandNames : DiffStep(n)
    \/ EndDiff
    \/ SpawnIncoming
    \/ \E n \in HandNames : NewStep(n)

SpecHand == InitHand /\ [][NextHand]_vars

\* C11: the outgoing generation's poll tasks issue no runtime call during
\* the reload's diff step, nor while the incoming generation's poll task
\* for the same container is acting, and the two generations never have
\* live poll tasks at the same time.
C11_OneReconcilerAtATime ==
    /\ late_calls = {}
    /\ \A n \in HandNames :
           new_poll[n] # "none" => old_poll[n] = "dropped"

(***************************************************************************)
(* Startup: main validates that no container of a declared service exists  *)
(* before it enters the lifecycle loop.                                    *)
(***************************************************************************)
\* docker.inspect_container as the runtime answers it: 200, 404 or another
\* error (5xx, connection failure).
inspect_container(name) ==
    IF name \in inspect_errors THEN "error"
    ELSE IF name \in present THEN "ok"
    ELSE "not_found"

\* ServiceInstance::container_does_not_exist, by the answer of the inspect
\* call: Ok(_) => false, 404 => true, Err(e) => true.
container_does_not_exist_on(answer) ==
    CASE answer = "ok"        -> FALSE
      [] answer = "not_found" -> TRUE
      [] answer = "error"     -> TRUE

\* ServicesManager::validate_containers_not_present: Ok(()) (TRUE) when every
\* validation task returned Ok.
validate_containers_not_present(service_names) ==
    \A i \in DOMAIN service_names :
        container_does_not_exist_on(inspect_container(service_names[i]))

InitStartup ==
    /\ InitManager /\ InitRoute /\ NoCron /\ NoLife
    /\ NoRestExcept("startVars")
    /\ declared \in SeqsUpTo(Names, MaxServices)
    /\ present \in SUBSET Names
    /\ inspect_errors \in SUBSET Names
    /\ main_startup = "validate"

\* main: if let Err(e) = manager.validate_containers_not_present().await
\* { return ExitCode::FAILURE }, else on to the lifecycle loop.
ValidateContainers ==
    /\ main_startup = "validate"
    /\ main_startup' = IF validate_containers_not_present(declared)
                       THEN "loop" ELSE "failed"
    /\ UNCHANGED <<outsideStart, declared, present, inspect_errors>>

NextStartup == ValidateContainers

SpecStartup == InitStartup /\ [][NextStartup]_vars

\* C12: main enters the lifecycle loop only when the runtime holds no
\* container named like a declared service, whatever the runtime answers to
\* the inspect calls.
C12_StartupOnlyWithoutContainers ==
    main_startup = "loop" => Range(declared) \cap present = {}

(***************************************************************************)
(* The poll loop of one instance (ServicesManager::start_polling) with its *)
(* cron watcher, its image watcher and a runtime whose calls can fail.     *)
(* Time is kept relative to the clock: cron_in is CronWatcher.next minus   *)
(* now, poll_elapsed is last_image_poll.elapsed().  A cron schedule fires  *)
(* every svc.period seconds.  The service has no depends_on.               *)
(*                                                                         *)
(* A world w is what a tick reads and writes: the registry, the local      *)
(* image store, the container, the watchers' state and the record of what  *)
(* the tick did.  A fallible call returns [ok, w].                         *)
(***************************************************************************)
MaxFaults == 1

NoBox == [exists |-> FALSE, digest |-> 0, running |-> FALSE]

Issue(w, verb) == [w EXCEPT !.calls = @ \cup {verb}]

Ok(w) == [ok |-> TRUE, w |-> w]

Err(w) == [ok |-> FALSE, w |-> w]

\* ServiceInstance::pull_image (fallible)
PullImage(w) ==
    LET c == Issue(w, "pull") IN
    IF "pull" \in c.faults THEN Err(c)
    ELSE Ok([c EXCEPT !.local_image = c.registry])

\* ServiceInstance::stop_container (404 and 304 are Ok)
StopContainer(w) ==
    Ok([Issue(w, "stop") EXCEPT !.box.running = FALSE])

\* ServiceInstance::remove_container (404 is Ok)
RemoveContainer(w) ==
    Ok([Issue(w, "remove") EXCEPT !.box = NoBox])

\* ServiceInstance::create_container (fallible; the name must be free)
CreateContainer(w) ==
    LET c == Issue(w, "create") IN
    IF "create" \in c.faults \/ c.box.exists \/ c.local_image = 0 THEN Err(c)
    ELSE Ok([c EXCEPT !.box = [exists |-> TRUE, digest |-> c.local_image,
                               running |-> FALSE]])

\* docker.start_container (fallible; 404 without container)
StartContainer(w) ==
    LET c == Issue(w, "start") IN
    IF "start" \in c.faults \/ ~c.box.exists THEN Err(c)
    ELSE Ok([c EXCEPT !.box.running = TRUE])

\* ServiceInstance::container_does_not_exist: [ans, w]
ContainerDoesNotExist(w) ==
    [ans |-> ~w.box.exists, w |-> Issue(w, "inspect")]

\* ServiceInstance::recreate_container: pull?, stop, remove, create?
RecreateContainer(w) ==
    LET pulled == PullImage(w) IN
    IF ~pulled.ok THEN Err(pulled.w)
    ELSE CreateContainer(RemoveContainer(StopContainer(pulled.w).w).w)

\* Mutant of RunContainer: every run recreates the container.
RunContainer_force(w, service) ==
    LET recreated == RecreateContainer([w EXCEPT !.runs = @ + 1]) IN
    IF ~recreated.ok THEN Err(recreated.w)
    ELSE StartContainer(recreated.w)

\* ServiceInstance::run_container with an empty depends_on
RunContainer(w, service) ==
    LET entered == [w EXCEPT !.runs = @ + 1]
        absent  == IF service.pull = "always"
                   THEN [ans |-> TRUE, w |-> entered]
                   ELSE ContainerDoesNotExist(entered)
        ready   == IF absent.ans THEN RecreateContainer(absent.w)
                   ELSE Ok(absent.w)
    IN  IF ~ready.ok THEN Err(ready.w)
        ELSE StartContainer(ready.w)

\* ImageWatcher::update: get_latest_digest pulls the image and reads its
\* digest; an error is Deleted, a digest other than last_digest is stored
\* and reported as Updated.
Update(w) ==
    LET c == Issue(w, "pull") IN
    IF "pull" \in c.faults THEN [status |-> "Deleted", w |-> c]
    ELSE LET fetched == [c EXCEPT !.local_image = c.registry] IN
         IF fetched.last_digest = fetched.registry
         THEN [status |-> "NotUpdated", w |-> fetched]
         ELSE [status |-> "Updated",
               w |-> [fetched EXCEPT !.last_digest = fetched.registry]]

\* schedule.upcoming(Local).next() of a schedule that fires every `period`
\* seconds, relative to the clock, for a stored instant that is due.
upcoming_in(period, due_in) == period - ((0 - due_in) % period)

\* CronWatcher::is_ready with a single caller: [ready, w]
IsReady(w, period) ==
    LET seen == [w EXCEPT !.cron_consulted = TRUE] IN
    IF is_due(0, seen.cron_in)
    THEN LET cas == compare_exchange(seen.cron_in, seen.cron_in,
                                     upcoming_in(period, seen.cron_in))
         IN  [ready |-> cas.ok, w |-> [seen EXCEPT !.cron_in = cas.value]]
    ELSE [ready |-> FALSE, w |-> seen]

\* Mutant of Poll: the startup branch does not return.
Poll_startup_falls_through(w, service, poll_images, init) ==
    LET started == IF init /\ service.initialize = "immediately"
                   THEN RunContainer(w, service).w ELSE w
        cron    == IF service.period > 0 THEN IsReady(started, service.period)
                   ELSE [ready |-> FALSE, w |-> started]
    IN  IF cron.ready
        THEN RunContainer([cron.w EXCEPT !.cron_ready = TRUE], service).w
        ELSE IF service.watch /\ poll_images
        THEN LET updated == Update([cron.w EXCEPT !.image_consulted = TRUE]) IN
             IF updated.status = "Updated"
             THEN RunContainer(RecreateContainer(updated.w).w, service).w
             ELSE updated.w
        ELSE cron.w

\* ServiceInstance::poll
Poll(w, service, poll_images, init) ==
    IF init /\ service.initialize = "immediately"
    THEN RunContainer(w, service).w
    ELSE LET cron == IF service.period > 0 THEN IsReady(w, service.period)
                     ELSE [ready |-> FALSE, w |-> w]
         IN  IF cron.ready
             THEN RunContainer([cron.w EXCEPT !.cron_ready = TRUE], service).w
             ELSE IF service.watch /\ poll_images
             THEN LET updated == Update([cron.w EXCEPT !.image_consulted = TRUE]) IN
                  IF updated.status = "Updated"
                  THEN RunContainer(RecreateContainer(updated.w).w, service).w
                  ELSE updated.w
             ELSE cron.w

PollServices ==
    [initialize : {"immediately", "on_trigger"}, pull : {"always", "on_startup"},
     watch : BOOLEAN, period : {0, 1, 3}, delay : {0, 2}]

\* The runtime calls that can fail together.
Faults == {{"pull"}, {"create"}, {"start"}}

\* What a tick takes, with the sleep of one second.
TickSeconds == {1, 2}

Min(a, b) == IF a <= b THEN a ELSE b

\* The polling task is spawned: `init = true`, last_image_poll = now.  The
\* cron watcher was built with the first upcoming instant, the image
\* watcher with the registry's digest (None when that failed).  The
\* container is absent (first generation) or left by the previous one.
InitPoll ==
    /\ InitManager /\ InitRoute /\ NoCron /\ NoLife
    /\ NoRestExcept("pollVars")
    /\ svc \in PollServices
    /\ init_flag = TRUE
    /\ poll_elapsed = 0
    /\ cron_in \in IF svc.period = 0 THEN {0} ELSE 0..svc.period
    /\ registry = 1
    /\ last_digest \in IF svc.watch THEN {0, 1} ELSE {0}
    /\ local_image = last_digest
    /\ box \in {NoBox, [exists |-> TRUE, digest |-> 1, running |-> TRUE]}
    /\ faults = {}
    /\ fault_budget = MaxFaults
    /\ tick = None

\* One iteration of the poll loop: poll_images from the elapsed time,
\* instance.poll(poll_images, init), init = false, sleep.
PollLoopTick(seconds) ==
    LET poll_images == poll_elapsed >= svc.delay
        before == [registry |-> registry, local_image |-> local_image,
                   last_digest |-> last_digest, box |-> box, faults |-> faults,
                   cron_in |-> cron_in, calls |-> {}, runs |-> 0,
                   cron_consulted |-> FALSE, cron_ready |-> FALSE,
                   image_consulted |-> FALSE]
        after  == Poll(before, svc, poll_images, init_flag)
    IN  /\ local_image' = after.local_image
        /\ last_digest' = after.last_digest
        /\ box' = after.box
        /\ init_flag' = FALSE
        /\ poll_elapsed' = Min((IF poll_images THEN 0 ELSE poll_elapsed) + seconds,
                               svc.delay)
        /\ cron_in' = IF svc.period = 0 THEN 0 ELSE after.cron_in - seconds
        /\ tick' = Some([first |-> init_flag, poll_images |-> poll_images,
                         faults |-> faults, had_container |-> box.exists,
                         runs |-> after.runs, calls |-> after.calls,
                         cron_consulted |-> after.cron_consulted,
                         cron_ready |-> after.cron_ready,
                         image_consulted |-> after.image_consulted])
        /\ UNCHANGED <<outsidePoll, svc, registry, faults, fault_budget>>

\* A new image is pushed to the registry.
RegistryPush ==
    /\ registry = 1
    /\ registry' = 2
    /\ UNCHANGED <<outsidePoll, svc, init_flag, poll_elapsed, cron_in, local_image,
                   last_digest, box, faults, fault_budget, tick>>

\* The runtime starts failing some calls (a transient fault).
RuntimeFails(failing) ==
    /\ faults = {}
    /\ fault_budget > 0
    /\ faults' = failing
    /\ fault_budget' = fault_budget - 1
    /\ UNCHANGED <<outsidePoll, svc, init_flag, poll_elapsed, cron_in, registry,
                   local_image, last_digest, box, tick>>

\* The runtime recovers.
RuntimeRecovers ==
    /\ faults # {}
    /\ faults' = {}
    /\ UNCHANGED <<outsidePoll, svc, init_flag, poll_elapsed, cron_in, registry,
                   local_image, last_digest, box, fault_budget, tick>>

NextPoll ==
    \/ \E seconds \in TickSeconds : PollLoopTick(seconds)
    \/ RegistryPush
    \/ \E failing \in Faults : RuntimeFails(failing)
    \/ RuntimeRecovers

SpecPoll == InitPoll /\ [][NextPoll]_vars

\* The first generation (no container yet, the image watcher initialised)
\* of a service polled with a delay of two seconds.
InitPollFair ==
    /\ InitPoll
    /\ svc.delay = 2
    /\ box = NoBox
    /\ svc.watch => last_digest = registry
    /\ svc.pull = "on_startup"
    /\ svc.period \in {0, 1}

\* The poll loop never stops ticking and a fault of the runtime ends.
SpecPollFair ==
    /\ InitPollFair
    /\ [][NextPoll]_vars
    /\ WF_vars(\E seconds \in TickSeconds : PollLoopTick(seconds))
    /\ WF_vars(RuntimeRecovers)

(***************************************************************************)
(* Properties of the poll loop (SpecPoll, SpecPollFair).                   *)
(***************************************************************************)
VerbsOfRun == {"pull", "stop", "remove", "create", "start"}

\* The image watcher is due on the tick: watch is set and the delay has
\* elapsed (at once when the delay is 0).
ImageDue == svc.watch /\ tick.val.poll_images

\* C13 as stated: on the first tick an `immediately` service gets exactly one
\* run and no watcher is consulted; an `on_trigger` service of which no cron
\* occurrence is due gets no run and no runtime call at all.
C13_FirstTickAsStated ==
    (tick.some /\ tick.val.first) =>
        IF svc.initialize = "immediately"
        THEN /\ tick.val.runs = 1
             /\ ~tick.val.cron_consulted
             /\ ~tick.val.image_consulted
        ELSE ~tick.val.cron_ready =>
                 (tick.val.runs = 0 /\ tick.val.calls = {})

\* C13, amended: as stated, except that an `on_trigger` service with no cron
\* occurrence due is free of runtime calls only when its image watcher is
\* not due; when it is due (watch, delay 0) the watcher is consulted on the
\* first tick, which pulls the image.
C13_FirstTick ==
    (tick.some /\ tick.val.first) =>
        IF svc.initialize = "immediately"
        THEN /\ tick.val.runs = 1
             /\ ~tick.val.cron_consulted
             /\ ~tick.val.image_consulted
        ELSE ~tick.val.cron_ready =>
                 /\ tick.val.image_consulted = ImageDue
                 /\ ~ImageDue => (tick.val.runs = 0 /\ tick.val.calls = {})
                 /\ ImageDue => "pull" \in tick.val.calls

\* The first tick of an `immediately` service with a due cron occurrence and
\* a due image watcher: one run, the cron occurrence still stored.
C13_Witness ==
    /\ tick.some /\ tick.val.first
    /\ svc.initialize = "immediately"
    /\ svc.period = 1 /\ cron_in <= 0
    /\ ImageDue
    /\ tick.val.runs = 1

C15_ImageWatcherConsulted ==
    (svc # None /\ svc.watch) ~> (tick.some /\ tick.val.image_consulted)

\* C18: a service that is to start immediately ends up running, also when a
\* runtime call of one of its deployments failed transiently.
C18_DeploymentRetried ==
    (svc # None /\ svc.initialize = "immediately") ~> (box # None /\ box.running)

(***************************************************************************)
(* The dependency gate of ServiceInstance::run_container, next to the poll *)
(* loop of another service and to main's select.                           *)
(***************************************************************************)
Peers == {"db", "migrator"}

Conditions == {"started", "completed", "healthy"}

\* What get_container_status returns: Ok(Running { health }), Ok(Exited(code)),
\* Ok(NotFound) or Err(_).
Statuses ==
    {"running_healthy", "running_unhealthy", "running_starting", "running_none",
     "exited_0", "exited_1", "not_found", "error"}

IsRunning(status) ==
    status \in {"running_healthy", "running_unhealthy", "running_starting",
                "running_none"}

\* Mutant of condition_met: an inspection error counts as met.
condition_met_unless_known(condition, status) ==
    \/ status = "error"
    \/ CASE condition = "started"   -> IsRunning(status)
         [] condition = "completed" -> status = "exited_0"
         [] condition = "healthy"   -> status \in {"running_healthy", "running_none"}

\* run_container: the match on get_container_status(container) and the
\* condition.
condition_met(condition, status) ==
    IF status = "error" THEN FALSE
    ELSE CASE condition = "started"   -> IsRunning(status)
           [] condition = "completed" -> status = "exited_0"
           [] condition = "healthy"   ->
                  IF IsRunning(status)
                  THEN status \in {"running_healthy", "running_none"}
                  ELSE FALSE

\* Mutant of polls_share_a_task: the polls are awaited one after the other.
polls_in_sequence == TRUE

\* start_polling collects the poll loops into a JoinSet: each is a task of
\* its own, none waits for another.
polls_share_a_task == FALSE

Unseen == [p \in DOMAIN depends_on |-> "unseen"]

\* poll has called run_container: the first pass of the gate begins.
InitGate ==
    /\ InitManager /\ InitRoute /\ NoCron /\ NoLife
    /\ NoRestExcept("gateVars")
    /\ \E waited \in SUBSET Peers : depends_on \in [waited -> Conditions]
    /\ peer \in [Peers -> Statuses]
    /\ gate_pc = "pass"
    /\ todo = DOMAIN depends_on
    /\ all_met = TRUE
    /\ observed = Unseen
    /\ own_calls = {}
    /\ other_tick = 0

\* One iteration of `for (container, condition) in &self.config.depends_on`.
GateObserve(p) ==
    /\ gate_pc = "pass"
    /\ p \in todo
    /\ todo' = todo \ {p}
    /\ observed' = [observed EXCEPT ![p] = peer[p]]
    /\ all_met' = (all_met /\ condition_met(depends_on[p], peer[p]))
    /\ UNCHANGED <<outsideGate, depends_on, peer, gate_pc, own_calls, other_tick>>

\* After the for loop: break if all conditions are met, else clear and sleep.
GateEndPass ==
    /\ gate_pc = "pass"
    /\ todo = {}
    /\ gate_pc' = IF all_met THEN "open" ELSE "sleep"
    /\ UNCHANGED <<outsideGate, depends_on, peer, todo, all_met, observed,
                   own_calls, other_tick>>

\* The sleep of one second ends: the next pass begins.
GateWake ==
    /\ gate_pc = "sleep"
    /\ gate_pc' = "pass"
    /\ todo' = DOMAIN depends_on
    /\ all_met' = TRUE
    /\ observed' = Unseen
    /\ UNCHANGED <<outsideGate, depends_on, peer, own_calls, other_tick>>

\* Past the gate: recreate if pull is always or the container does not exist
\* (a failed pull or create returns early), then start.
GateRun ==
    /\ gate_pc = "open"
    /\ gate_pc' = "done"
    /\ \E issued \in {{"inspect", "start"},
                      {"inspect", "pull", "stop", "remove", "create", "start"},
                      {"pull", "stop", "remove", "create", "start"},
                      {"pull"}, {"inspect", "pull"},
                      {"pull", "stop", "remove", "create"}} :
           own_calls' = issued
    /\ UNCHANGED <<outsideGate, depends_on, peer, todo, all_met, observed, other_tick>>

\* A peer's container changes state, or its inspection starts to fail.
PeerChanges(p, status) ==
    /\ gate_pc \notin {"done", "dropped"}
    /\ peer[p] # status
    /\ peer' = [peer EXCEPT ![p] = status]
    /\ UNCHANGED <<outsideGate, depends_on, gate_pc, todo, all_met, observed,
                   own_calls, other_tick>>

\* A tick of the poll loop of another service.
OtherTick ==
    /\ gate_pc # "dropped"
    /\ polls_share_a_task => gate_pc = "done"
    /\ other_tick' = 1 - other_tick
    /\ UNCHANGED <<outsideGate, depends_on, peer, gate_pc, todo, all_met,
                   observed, own_calls>>

\* main's select takes a reload or shutdown notification and aborts the
\* polling task; the waiting run_container is dropped with it.
GateSignal ==
    /\ gate_pc # "dropped"
    /\ gate_pc' = "dropped"
    /\ UNCHANGED <<outsideGate, depends_on, peer, todo, all_met, observed,
                   own_calls, other_tick>>

NextGate ==
    \/ \E p \in Peers : GateObserve(p)
    \/ GateEndPass
    \/ GateWake
    \/ GateRun
    \/ \E p \in Peers : \E status \in Statuses : PeerChanges(p, status)
    \/ OtherTick
    \/ GateSignal

SpecGate == InitGate /\ [][NextGate]_vars


(***************************************************************************)
(* Properties of the dependency gate.                                      *)
(***************************************************************************)
\* The statuses a condition asks for, as the documentation lists them.
Required(condition) ==
    CASE condition = "started"   ->
             {"running_healthy", "running_unhealthy", "running_starting",
              "running_none"}
      [] condition = "completed" -> {"exited_0"}
      [] condition = "healthy"   -> {"running_healthy", "running_none"}

\* C16: run_container issues no pull, stop, remove, create or start for its
\* own container before a pass of the gate in which every depends_on peer
\* was observed in the state its condition asks for; a peer that is not
\* found, exited non-zero, unhealthy, still starting (for healthy) or whose
\* inspection failed keeps the gate closed.
C16_GateBeforeCalls ==
    /\ own_calls # {} => gate_pc \in {"done", "dropped"}
    /\ (gate_pc = "open" \/ own_calls # {}) =>
           \A p \in DOMAIN depends_on : observed[p] \in Required(depends_on[p])
    /\ gate_pc = "sleep" =>
           \E p \in DOMAIN depends_on : observed[p] \notin Required(depends_on[p])

C16_Witness ==
    /\ DOMAIN depends_on = Peers
    /\ depends_on["db"] = "healthy" /\ depends_on["migrator"] = "completed"
    /\ gate_pc = "done"
    /\ "start" \in own_calls
    /\ observed["db"] = "running_none" /\ observed["migrator"] = "exited_0"

FillWindow == 5

\* How many declared services have no reserved entry.
MaxPending == 2

FillLow == SubnetLimit - FillWindow

Injective(s) == \A i, j \in DOMAIN s : s[i] = s[j] => i = j

\* used_ips: the gateway and every address below FillLow are in it; the state
\* keeps its entries from FillLow on.
used_ips == (GatewayOffset..(FillLow - 1)) \cup fill_used

\* The fill phase is in its inner loop for the first service without an
\* entry and has stepped over [FirstOffset, FillLow), all of it reserved for
\* surviving services; above, any set of addresses that earlier generations
\* gave out may be reserved.
InitFill ==
    /\ InitManager /\ InitRoute /\ NoCron /\ NoLife
    /\ NoRestExcept("fillVars")
    /\ fill_pending \in {s \in SeqsUpTo(Names, MaxPending) : s # <<>> /\ Injective(s)}
    /\ fill_used \in SUBSET (FillLow..(SubnetLimit - 1))
    /\ fill_next = FillLow
    /\ fill_assigned = EmptyMap
    /\ fill_pc = "walking"

\* candidate_ip = base_ip + next_offset; next_offset += 1; the limit check
\* fails.
FillPanic ==
    /\ fill_pc = "walking"
    /\ fill_next + 1 > SubnetLimit
    /\ fill_next' = fill_next + 1
    /\ fill_pc' = "panic"
    /\ UNCHANGED <<outsideFill, fill_pending, fill_used, fill_assigned>>

\* The candidate is in used_ips: the loop goes round.
FillSkip ==
    /\ fill_pc = "walking"
    /\ fill_next + 1 <= SubnetLimit
    /\ fill_next \in used_ips
    /\ fill_next' = fill_next + 1
    /\ UNCHANGED <<outsideFill, fill_pending, fill_used, fill_assigned, fill_pc>>

\* The candidate is free: it is assigned, and the for loop moves to the next
\* service without an entry.
FillAssign ==
    /\ fill_pc = "walking"
    /\ fill_next + 1 <= SubnetLimit
    /\ fill_next \notin used_ips
    /\ fill_next' = fill_next + 1
    /\ fill_assigned' = Put(fill_assigned, Head(fill_pending), fill_next)
    /\ fill_used' = fill_used \cup {fill_next}
    /\ fill_pending' = Tail(fill_pending)
    /\ fill_pc' = IF Tail(fill_pending) = <<>> THEN "done" ELSE "walking"
    /\ UNCHANGED outsideFill

NextFill == FillPanic \/ FillSkip \/ FillAssign

SpecFill == InitFill /\ [][NextFill]_vars

\* C19: in the fill phase each service without a reserved entry gets the
\* lowest address of [base+2, broadcast-1] that is not in use, and every
\* free address of that range, up to and including broadcast-1, is
\* assignable: the fill gives up only when none is left.  (Below FillLow
\* every address is in use in every state of SpecFill.)
C19_FillUsesWholeRange ==
    /\ fill_pc \in {"walking", "done", "panic"} =>
           \A o \in FillLow..(fill_next - 1) : o \in fill_used
    /\ fill_pc = "panic" =>
           \A o \in FillLow..SubnetLimit : o \in fill_used


(***************************************************************************)
(* ImageWatcher: initialize and update, called by the one poll loop that   *)
(* owns the watcher.                                                       *)
(***************************************************************************)
\* How many update() calls a behaviour holds.
MaxCalls == 3

Digests == {"d1", "d2"}

\* Result<Sha256>: Err(e) or Ok(digest)
FetchResults == {[ok |-> FALSE]} \cup {[ok |-> TRUE, digest |-> d] : d \in Digests}

\* Mutant of update: every fetched digest is stored and reported as new.
update_without_compare(last, new_sha256) ==
    IF ~new_sha256.ok
    THEN [status |-> "Deleted", write |-> FALSE, last_digest |-> last]
    ELSE [status |-> "Updated", write |-> TRUE,
          last_digest |-> Some(new_sha256.digest)]

\* Mutant of update: a failed fetch forgets the stored digest.
update_forgets_on_error(last, new_sha256) ==
    IF ~new_sha256.ok
    THEN [status |-> "Deleted", write |-> TRUE, last_digest |-> None]
    ELSE IF last = Some(new_sha256.digest)
    THEN [status |-> "NotUpdated", write |-> FALSE, last_digest |-> last]
    ELSE [status |-> "Updated", write |-> TRUE,
          last_digest |-> Some(new_sha256.digest)]

\* The match of ImageWatcher::update: the status returned and, in the arm
\* that writes it, the digest stored into self.last_digest.
update(last, new_sha256) ==
    IF ~new_sha256.ok
    THEN [status |-> "Deleted", write |-> FALSE, last_digest |-> last]
    ELSE IF last = Some(new_sha256.digest)
    THEN [status |-> "NotUpdated", write |-> FALSE, last_digest |-> last]
    ELSE [status |-> "Updated", write |-> TRUE,
          last_digest |-> Some(new_sha256.digest)]

\* ImageWatcher::initialize: the digest fetched, or None when that failed.
InitWatch ==
    /\ InitManager /\ InitRoute /\ NoCron /\ NoLife
    /\ NoRestExcept("watchVars")
    /\ \E fetched \in FetchResults :
           wd_last = IF fetched.ok THEN Some(fetched.digest) ELSE None
    /\ wd_pc = "idle"
    /\ wd_copy = None
    /\ wd_new = None
    /\ wd_log = <<>>

\* let last_digest = *self.last_digest.lock().await
UpdateRead ==
    /\ wd_pc = "idle"
    /\ Len(wd_log) < MaxCalls
    /\ wd_copy' = wd_last
    /\ wd_pc' = "read"
    /\ UNCHANGED <<outsideWatch, wd_last, wd_new, wd_log>>

\* let new_sha256 = get_latest_digest(&self.image).await
UpdateFetch(fetched) ==
    /\ wd_pc = "read"
    /\ wd_new' = IF fetched.ok THEN Some(fetched) ELSE Some([ok |-> FALSE])
    /\ wd_pc' = "fetched"
    /\ UNCHANGED <<outsideWatch, wd_last, wd_copy, wd_log>>

\* match new_sha256 { ... }: the store under the lock and the return.
UpdateReturn ==
    /\ wd_pc = "fetched"
    /\ LET out == update(wd_copy, wd_new.val) IN
           /\ wd_last' = IF out.write THEN out.last_digest ELSE wd_last
           /\ wd_log' = Append(wd_log, [before  |-> wd_last,
                                        fetched |-> wd_new.val,
                                        status  |-> out.status,
                                        after   |-> wd_last'])
    /\ wd_pc' = "idle"
    /\ wd_copy' = None
    /\ wd_new' = None
    /\ UNCHANGED outsideWatch

NextWatch ==
    \/ UpdateRead
    \/ \E fetched \in FetchResults : UpdateFetch(fetched)
    \/ UpdateReturn

SpecWatch == InitWatch /\ [][NextWatch]_vars

\* C21: if a call to update() fetches digest d and the next call on the same
\* watcher fetches d again, the second call returns NotUpdated and leaves
\* the stored digest equal to d.
C21_SameDigestNotUpdated ==
    \A i \in 1..(Len(wd_log) - 1) :
        (/\ wd_log[i].fetched.ok /\ wd_log[i + 1].fetched.ok
         /\ wd_log[i].fetched.digest = wd_log[i + 1].fetched.digest) =>
            /\ wd_log[i + 1].status = "NotUpdated"
            /\ wd_log[i + 1].after = Some(wd_log[i].fetched.digest)

\* A digest that was new on the first call and is fetched again on the next.
C21_Witness ==
    /\ Len(wd_log) >= 2
    /\ wd_log[1].status = "Updated"
    /\ wd_log[2].fetched = wd_log[1].fetched
    /\ wd_log[2].status = "NotUpdated"

\* C22: when the digest fetch of update() fails, update() returns Deleted
\* and the stored digest is unchanged: a later successful fetch of the
\* previously stored digest returns NotUpdated, one of a different digest
\* returns Updated.
C22_FailedFetchKeepsDigest ==
    \A i \in 1..Len(wd_log) :
        ~wd_log[i].fetched.ok =>
            /\ wd_log[i].status = "Deleted"
            /\ wd_log[i].after = wd_log[i].before
            /\ (i < Len(wd_log) /\ wd_log[i + 1].fetched.ok) =>
                   wd_log[i + 1].status =
                       IF wd_log[i].before = Some(wd_log[i + 1].fetched.digest)
                       THEN "NotUpdated" ELSE "Updated"

\* A failed fetch between two fetches of the stored digest.
C22_Witness ==
    /\ Len(wd_log) = 3
    /\ wd_log[1].fetched.ok
    /\ ~wd_log[2].fetched.ok /\ wd_log[2].status = "Deleted"
    /\ wd_log[3].fetched = wd_log[1].fetched
    /\ wd_log[3].status = "NotUpdated"

(***************************************************************************)
(* requires_recreate and recreate_if_required for one surviving service,   *)
(* with the answers the runtime can give to the inspect call.              *)
(***************************************************************************)
\* ServiceInstanceConfig of a service named a: its content, as far as the
\* derived PartialEq compares it.
DiffConfigs ==
    [name : {"a"}, ver : {1, 2}, initialize : {"immediately", "on_trigger"},
     pull : {"always", "on_startup"}]

\* docker.inspect_container: what the runtime can answer for a container
\* that exists or does not.
InspectAnswers(exists) ==
    IF exists THEN {"ok", "error"} ELSE {"not_found", "error"}

\* ServiceInstance::requires_recreate, by the answer of the inspect call.
requires_recreate_on(answer, self_config, other_config) ==
    IF container_does_not_exist_on(answer) THEN TRUE
    ELSE self_config # other_config

\* The reload diff has paired the instance with the one of the same name.
InitDiff ==
    /\ InitManager /\ InitRoute /\ NoCron /\ NoLife
    /\ NoRestExcept("diffVars")
    /\ rr_self \in {Some(c) : c \in DiffConfigs}
    /\ rr_other \in {Some(c) : c \in DiffConfigs}
    /\ rr_exists \in BOOLEAN
    /\ rr_required = None
    /\ rr_calls = {}

\* ServiceInstance::recreate_if_required: requires_recreate, then
\* recreate_container when it said so.
RecreateIfRequired(answer) ==
    /\ rr_required = None
    /\ LET required == requires_recreate_on(answer, rr_self.val, rr_other.val) IN
           /\ rr_required' = Some(required)
           /\ rr_calls' = IF required
                          THEN {"inspect", "pull", "stop", "remove", "create"}
                          ELSE {"inspect"}
    /\ UNCHANGED <<outsideDiff, rr_self, rr_other, rr_exists>>

NextDiff == \E answer \in InspectAnswers(rr_exists) : RecreateIfRequired(answer)

SpecDiff == InitDiff /\ [][NextDiff]_vars

\* C23: for instances with structurally equal configurations
\* requires_recreate is false whenever the container exists, so the reload
\* diff does not recreate the container of an unchanged declaration; it is
\* true whenever the container is absent or the configurations differ.
C23_RecreateOnlyIfChangedOrAbsent ==
    rr_required # None =>
        /\ rr_required.val = (~rr_exists \/ rr_self # rr_other)
        /\ (rr_exists /\ rr_self = rr_other) => rr_calls \subseteq {"inspect"}

(***************************************************************************)
(* stop_container and remove_container against the runtime's answers.      *)
(***************************************************************************)
\* How many stop and remove calls a behaviour holds.
MaxVerbs == 3

\* The answers of the runtime to a stop (t = 10) of a container in a state,
\* and the state it leaves: 204 stopped, 304 already stopped, 404 no such
\* container, 500 failed.
StopAnswers(state) ==
    CASE state = "running" -> {[code |-> "204", leaves |-> "stopped"],
                               [code |-> "500", leaves |-> "running"]}
      [] state = "stopped" -> {[code |-> "304", leaves |-> "stopped"],
                               [code |-> "500", leaves |-> "stopped"]}
      [] state = "absent"  -> {[code |-> "404", leaves |-> "absent"],
                               [code |-> "500", leaves |-> "absent"]}

\* The answers of the runtime to a remove (force = true).
RemoveAnswers(state) ==
    CASE state = "absent" -> {[code |-> "404", leaves |-> "absent"],
                              [code |-> "500", leaves |-> "absent"]}
      [] OTHER            -> {[code |-> "204", leaves |-> "absent"],
                              [code |-> "500", leaves |-> state]}

\* Mutant of stop_result: only a 2xx answer is success.
stop_result_strict(code) == code = "204"

\* ServiceInstance::stop_container: Ok(()) (TRUE) or Err(DockerApi(e)).
stop_result(code) ==
    CASE code = "204" -> TRUE
      [] code = "404" -> TRUE
      [] code = "304" -> TRUE
      [] OTHER        -> FALSE

\* ServiceInstance::remove_container: Ok(()) (TRUE) or Err(DockerApi(e)).
remove_result(code) ==
    CASE code = "204" -> TRUE
      [] code = "404" -> TRUE
      [] OTHER        -> FALSE

InitVerbs ==
    /\ InitManager /\ InitRoute /\ NoCron /\ NoLife
    /\ NoRestExcept("verbVars")
    /\ vb_box \in {"absent", "stopped", "running"}
    /\ vb_log = <<>>

StopCall ==
    /\ Len(vb_log) < MaxVerbs
    /\ \E answer \in StopAnswers(vb_box) :
           /\ vb_box' = answer.leaves
           /\ vb_log' = Append(vb_log, [verb |-> "stop", code |-> answer.code,
                                        ok |-> stop_result(answer.code),
                                        before |-> vb_box, after |-> answer.leaves])
    /\ UNCHANGED outsideVerb

RemoveCall ==
    /\ Len(vb_log) < MaxVerbs
    /\ \E answer \in RemoveAnswers(vb_box) :
           /\ vb_box' = answer.leaves
           /\ vb_log' = Append(vb_log, [verb |-> "remove", code |-> answer.code,
                                        ok |-> remove_result(answer.code),
                                        before |-> vb_box, after |-> answer.leaves])
    /\ UNCHANGED outsideVerb

NextVerbs == StopCall \/ RemoveCall

SpecVerbs == InitVerbs /\ [][NextVerbs]_vars

\* C24: stop_container returns success and changes nothing when the runtime
\* reports the container as already stopped (304) or not found (404),
\* remove_container likewise on not found (404); so a stop right after a
\* successful stop, and a remove right after a successful remove, return
\* success and change nothing unless the runtime itself fails.
C24_StopRemoveIdempotent ==
    /\ \A i \in 1..Len(vb_log) :
           vb_log[i].code \in {"304", "404"} =>
               vb_log[i].ok /\ vb_log[i].after = vb_log[i].before
    /\ \A i \in 1..(Len(vb_log) - 1) :
           (/\ vb_log[i].verb = vb_log[i + 1].verb
            /\ vb_log[i].ok
            /\ vb_log[i + 1].code # "500") =>
               vb_log[i + 1].ok /\ vb_log[i + 1].after = vb_log[i + 1].before

\* A running container stopped twice, then removed.
C24_Witness ==
    /\ Len(vb_log) = 3
    /\ vb_log[1].verb = "stop" /\ vb_log[1].code = "204"
    /\ vb_log[2].verb = "stop" /\ vb_log[2].code = "304" /\ vb_log[2].ok
    /\ vb_log[3].verb = "remove" /\ vb_log[3].ok

(***************************************************************************)
(* main's shutdown arm, ServicesManager::shutdown and the poll tasks of    *)
(* the generation that is running when the signal is taken.                *)
(***************************************************************************)
ShutNames == {"a", "b"}

\* The declared user networks: name and external flag.
ShutNetworks == {[name |-> "app", external |-> FALSE],
                 [name |-> "ext", external |-> TRUE]}

ShutEvery(v) == [n \in ShutNames |-> v]

\* A stop or remove call for the container of n has been sent and its
\* answer has not been taken.
InFlight(n) ==
    \/ sd_poll[n] \in {"in_stop", "in_remove"}
    \/ sd_task[n] \in {"in_stop", "in_remove"}

\* The select waits; every poll task sleeps between two ticks.
InitShut ==
    /\ InitManager /\ InitRoute /\ NoCron /\ NoLife
    /\ NoRestExcept("shutVars")
    /\ sd_main = "select"
    /\ sd_abort = "none"
    /\ sd_poll = ShutEvery("sleeping")
    /\ sd_task = ShutEvery("none")
    /\ sd_user_nets = {net.name : net \in ShutNetworks}
    /\ sd_default_net = TRUE
    /\ sd_overlap = FALSE

\* start_polling loop: the sleep ends and instance.poll begins.
ShutPollWake(n) ==
    /\ sd_poll[n] = "sleeping"
    /\ sd_abort # "propagated"
    /\ sd_poll' = [sd_poll EXCEPT ![n] = "running"]
    /\ UNCHANGED <<outsideShut, sd_main, sd_abort, sd_task, sd_user_nets,
                   sd_default_net, sd_overlap>>

\* poll issues a runtime call for its container (recreate_container: stop,
\* remove; run_container: start) and awaits the answer.
ShutPollIssue(n, verb) ==
    /\ sd_poll[n] = "running"
    /\ sd_poll' = [sd_poll EXCEPT ![n] = verb]
    /\ UNCHANGED <<outsideShut, sd_main, sd_abort, sd_task, sd_user_nets,
                   sd_default_net, sd_overlap>>

\* The answer arrives: on to the next call, or the tick is over.
ShutPollReturn(n) ==
    /\ sd_poll[n] \in {"in_stop", "in_remove", "in_start"}
    /\ sd_abort # "propagated"
    /\ \E then \in {"running", "sleeping"} :
           sd_poll' = [sd_poll EXCEPT ![n] = then]
    /\ UNCHANGED <<outsideShut, sd_main, sd_abort, sd_task, sd_user_nets,
                   sd_default_net, sd_overlap>>

\* The cancelled poll task is dropped at its yield point.
ShutPollDrop(n) ==
    /\ sd_abort = "propagated"
    /\ sd_poll[n] \in {"sleeping", "in_stop", "in_remove", "in_start"}
    /\ sd_poll' = [sd_poll EXCEPT ![n] = "dropped"]
    /\ UNCHANGED <<outsideShut, sd_main, sd_abort, sd_task, sd_user_nets,
                   sd_default_net, sd_overlap>>

\* main, shutdown arm: polling_handle.abort(), manager.cancel().
ShutAbort ==
    /\ sd_main = "select"
    /\ sd_main' = "aborted"
    /\ sd_abort' = "requested"
    /\ UNCHANGED <<outsideShut, sd_poll, sd_task, sd_user_nets, sd_default_net,
                   sd_overlap>>

\* The runtime drops the future of start_polling and with it the JoinSet.
ShutDropPolling ==
    /\ sd_abort = "requested"
    /\ sd_abort' = "propagated"
    /\ UNCHANGED <<outsideShut, sd_main, sd_poll, sd_task, sd_user_nets,
                   sd_default_net, sd_overlap>>

\* shutdown -> remove_containers(service_names): one task per instance.
ShutSpawnTasks ==
    /\ sd_main = "aborted"
    /\ sd_main' = "removing"
    /\ sd_task' = ShutEvery("spawned")
    /\ UNCHANGED <<outsideShut, sd_abort, sd_poll, sd_user_nets, sd_default_net,
                   sd_overlap>>

\* A task of remove_containers: stop_container, then remove_container,
\* whatever the first returned.
ShutTaskStep(n) ==
    /\ sd_main = "removing"
    /\ sd_task[n] \in {"spawned", "in_stop", "in_remove"}
    /\ sd_task' = [sd_task EXCEPT ![n] =
                       CASE @ = "spawned"   -> "in_stop"
                         [] @ = "in_stop"   -> "in_remove"
                         [] @ = "in_remove" -> "done"]
    /\ UNCHANGED <<outsideShut, sd_main, sd_abort, sd_poll, sd_user_nets,
                   sd_default_net, sd_overlap>>

\* while let Some(result) = join_set.join_next().await: every task is over;
\* cleanup_networks removes the user networks, external ones skipped.
ShutCleanupNetworks ==
    /\ sd_main = "removing"
    /\ \A n \in ShutNames : sd_task[n] = "done"
    /\ sd_main' = "networks"
    /\ sd_user_nets' = {net.name : net \in {x \in ShutNetworks : x.external}}
    /\ UNCHANGED <<outsideShut, sd_abort, sd_poll, sd_task, sd_default_net,
                   sd_overlap>>

\* remove_default_network()
ShutRemoveDefault ==
    /\ sd_main = "networks"
    /\ sd_main' = "default_removed"
    /\ sd_default_net' = FALSE
    /\ sd_overlap' = \E n \in ShutNames : InFlight(n)
    /\ UNCHANGED <<outsideShut, sd_abort, sd_poll, sd_task, sd_user_nets>>

\* send_signal(GracefulTerminate), remove the pid file, exit(0): every task
\* of the process ends.
ShutExit ==
    /\ sd_main = "default_removed"
    /\ sd_main' = "exit_0"
    /\ sd_poll' = ShutEvery("dropped")
    /\ UNCHANGED <<outsideShut, sd_abort, sd_task, sd_user_nets, sd_default_net,
                   sd_overlap>>

NextShut ==
    \/ \E n \in ShutNames : ShutPollWake(n)
    \/ \E n \in ShutNames : \E verb \in {"in_stop", "in_remove", "in_start"} :
           ShutPollIssue(n, verb)
    \/ \E n \in ShutNames : ShutPollReturn(n)
    \/ \E n \in ShutNames : ShutPollDrop(n)
    \/ ShutAbort
    \/ ShutDropPolling
    \/ ShutSpawnTasks
    \/ \E n \in ShutNames : ShutTaskStep(n)
    \/ ShutCleanupNetworks
    \/ ShutRemoveDefault
    \/ ShutExit

SpecShut == InitShut /\ [][NextShut]_vars

\* C25: on a shutdown signal the coordinator aborts polling, then attempts
\* stop and remove for every container of the current manager and waits
\* for all attempts to finish, then removes the non-external user networks,
\* and only afterwards removes the dispenser network and exits with code 0;
\* the dispenser network is never removed while a stop or remove of a
\* managed container is in flight.
C25_ShutdownOrder ==
    /\ sd_main \in {"removing", "networks", "default_removed", "exit_0"} =>
           sd_abort # "none"
    /\ sd_main \in {"networks", "default_removed", "exit_0"} =>
           /\ \A n \in ShutNames : sd_task[n] = "done"
           /\ sd_user_nets = {"ext"}
    /\ sd_main \in {"select", "aborted", "removing", "networks"} => sd_default_net
    /\ ~sd_overlap

(***************************************************************************)
(* NetworkInstance and the network steps of from_config and shutdown.      *)
(***************************************************************************)
\* How many [[network]] entries a configuration holds.
MaxNetworks == 2

\* DEFAULT_NETWORK_NAME and one more name.
NetNames == {"dispenser", "app"}

NetworkEntries == [name : NetNames, external : BOOLEAN]

\* NetworkInstance::default_network()
default_network == [name |-> "dispenser", external |-> FALSE]

NetRuntime == [nets |-> nw_runtime, calls |-> nw_calls, ok |-> TRUE]

\* NetworkInstance::check_network: Exists, NotFound or Err.
check_network(rt, network) ==
    IF network.name \in nw_inspect_errors THEN "error"
    ELSE IF network.name \in rt.nets THEN "exists"
    ELSE "not_found"

\* NetworkInstance::create_network
create_network(rt, network) ==
    IF network.external THEN rt
    ELSE LET status == check_network(rt, network) IN
         IF status = "error" THEN [rt EXCEPT !.ok = FALSE]
         ELSE IF status = "exists" THEN rt
         ELSE [rt EXCEPT !.nets = @ \cup {network.name},
                         !.calls = @ \cup {<<"create", network.name>>}]

\* NetworkInstance::remove_network: always Ok(())
remove_network(rt, network) ==
    IF network.external THEN rt
    ELSE [rt EXCEPT !.nets = @ \ {network.name},
                    !.calls = @ \cup {<<"remove", network.name>>}]

\* NetworkInstance::ensure_exists
ensure_exists(rt, network) ==
    LET status == check_network(rt, network) IN
    IF status = "error" THEN [rt EXCEPT !.ok = FALSE]
    ELSE IF status = "exists" THEN rt
    ELSE IF network.external THEN [rt EXCEPT !.ok = FALSE]
    ELSE create_network(rt, network)

\* from_config: for network in &networks { network.ensure_exists()? }
RECURSIVE EnsureNetworks(_, _, _)
EnsureNetworks(rt, networks, i) ==
    IF i > Len(networks) \/ ~rt.ok THEN rt
    ELSE EnsureNetworks(ensure_exists(rt, networks[i]), networks, i + 1)

\* from_config: ensure_default_network()?, then the declared networks.
from_config_networks(rt, networks) ==
    EnsureNetworks(ensure_exists(rt, default_network), networks, 1)

\* cleanup_networks
RECURSIVE CleanupNetworks(_, _, _)
CleanupNetworks(rt, networks, i) ==
    IF i > Len(networks) THEN rt
    ELSE CleanupNetworks(remove_network(rt, networks[i]), networks, i + 1)

InitNet ==
    /\ InitManager /\ InitRoute /\ NoCron /\ NoLife
    /\ NoRestExcept("netVars")
    /\ nw_declared \in SeqsUpTo(NetworkEntries, MaxNetworks)
    /\ nw_runtime \in SUBSET NetNames
    /\ nw_at_start = nw_runtime
    /\ nw_inspect_errors \in SUBSET NetNames
    /\ nw_calls = {}
    /\ nw_pc = "boot"

\* main: ServicesManager::from_config at startup; an Err ends the process.
ConstructNetworks ==
    /\ nw_pc = "boot"
    /\ LET rt == from_config_networks(NetRuntime, nw_declared) IN
           /\ nw_runtime' = rt.nets
           /\ nw_calls' = rt.calls
           /\ nw_pc' = IF rt.ok THEN "built" ELSE "failed"
    /\ UNCHANGED <<outsideNet, nw_declared, nw_at_start, nw_inspect_errors>>

\* reload: from_config again on the same declarations; an Err keeps the
\* manager that is running.
ReloadNetworks ==
    /\ nw_pc = "built"
    /\ LET rt == from_config_networks(NetRuntime, nw_declared) IN
           /\ nw_runtime' = rt.nets
           /\ nw_calls' = rt.calls
    /\ UNCHANGED <<outsideNet, nw_declared, nw_at_start, nw_inspect_errors, nw_pc>>

\* ServicesManager::shutdown: cleanup_networks, remove_default_network.
ShutdownNetworks ==
    /\ nw_pc = "built"
    /\ LET rt == remove_network(CleanupNetworks(NetRuntime, nw_declared, 1),
                                default_network) IN
           /\ nw_runtime' = rt.nets
           /\ nw_calls' = rt.calls
    /\ nw_pc' = "exited"
    /\ UNCHANGED <<outsideNet, nw_declared, nw_at_start, nw_inspect_errors>>

\* Somebody else removes a network from the runtime, or creates one.
NetworkChanges(name) ==
    /\ nw_pc = "built"
    /\ nw_runtime' = IF name \in nw_runtime THEN nw_runtime \ {name}
                     ELSE nw_runtime \cup {name}
    /\ UNCHANGED <<outsideNet, nw_declared, nw_at_start, nw_inspect_errors,
                   nw_calls, nw_pc>>

NextNet ==
    \/ ConstructNetworks
    \/ ReloadNetworks
    \/ ShutdownNetworks
    \/ \E name \in NetNames : NetworkChanges(name)

SpecNet == InitNet /\ [][NextNet]_vars

\* C26: for a network declared external = true the core never issues a
\* create or a remove call to the runtime, at construction, reload or
\* shutdown; if such a network does not exist, manager construction fails
\* instead of creating it.
C26_ExternalNeverTouched ==
    \A i \in DOMAIN nw_declared :
        nw_declared[i].external =>
            /\ <<"create", nw_declared[i].name>> \notin nw_calls
            /\ <<"remove", nw_declared[i].name>> \notin nw_calls
            /\ nw_pc \in {"built", "exited"} => nw_declared[i].name \in nw_at_start

\* The same for configurations whose network names are unique and differ
\* from the dispenser network's.
C26_ExternalNeverTouchedIfDistinct ==
    (/\ Injective([i \in DOMAIN nw_declared |-> nw_declared[i].name])
     /\ \A i \in DOMAIN nw_declared : nw_declared[i].name # default_network.name) =>
        C26_ExternalNeverTouched

(***************************************************************************)
(* DispenserProxy: request_filter and upstream_peer for one request.       *)
(***************************************************************************)
ProxyStrategies == {"HttpOnly", "HttpsOnly", "Both"}

\* "/.well-known/acme-challenge/", as the segments before the last slash.
AcmePrefix == <<".well-known", "acme-challenge">>

\* Request paths as sequences of segments; an empty last segment is a
\* trailing slash.
ProxyPaths ==
    {AcmePrefix \o <<"tok">>, AcmePrefix \o <<"">>, AcmePrefix, <<"app">>}

\* path.starts_with("/.well-known/acme-challenge/")
starts_with_acme(path) ==
    Len(path) > Len(AcmePrefix) /\ SubSeq(path, 1, Len(AcmePrefix)) = AcmePrefix

\* path.strip_prefix(..).unwrap_or("")
strip_prefix_acme(path) == SubSeq(path, Len(AcmePrefix) + 1, Len(path))

\* tokio::fs::read(".dispenser/challenges".join(token)) is Ok: the token
\* names a file of the directory (the empty token names the directory).
read_challenge_ok(files, token) == Len(token) = 1 /\ token[1] \in files

\* DispenserProxy::request_filter: the response written, or "pass" for
\* Ok(false).
request_filter(is_ssl, strategy, path, files) ==
    IF ~is_ssl /\ starts_with_acme(path)
       /\ read_challenge_ok(files, strip_prefix_acme(path))
    THEN "file"
    ELSE IF ~is_ssl /\ strategy = "HttpsOnly" THEN "redirect"
    ELSE "pass"

\* DispenserProxy::upstream_peer: a peer to forward to, or 502.
upstream_peer(routed) == IF routed THEN "forward" ELSE "bad_gateway"

\* A request arrives on the plaintext listener, or on the TLS listener that
\* run_proxy adds unless the strategy is HttpOnly.
InitProxy ==
    /\ InitManager /\ InitRoute /\ NoCron /\ NoLife
    /\ NoRestExcept("proxyVars")
    /\ px_strategy \in ProxyStrategies
    /\ px_is_ssl \in IF px_strategy = "HttpOnly" THEN {FALSE} ELSE BOOLEAN
    /\ px_path \in ProxyPaths
    /\ px_files \in SUBSET {"tok"}
    /\ px_routed \in BOOLEAN
    /\ px_answer = "none"

RequestFilter ==
    /\ px_answer = "none"
    /\ px_answer' = request_filter(px_is_ssl, px_strategy, px_path, px_files)
    /\ UNCHANGED <<outsideProxy, px_is_ssl, px_strategy, px_path, px_files, px_routed>>

UpstreamPeer ==
    /\ px_answer = "pass"
    /\ px_answer' = upstream_peer(px_routed)
    /\ UNCHANGED <<outsideProxy, px_is_ssl, px_strategy, px_path, px_files, px_routed>>

NextProxy == RequestFilter \/ UpstreamPeer

SpecProxy == InitProxy /\ [][NextProxy]_vars

\* C27: every request whose path begins with /.well-known/acme-challenge/
\* and whose token file exists is answered with the file's content, on the
\* plaintext and on the TLS listener alike and under every strategy; it is
\* never redirected or forwarded to an upstream.
C27_ChallengeServedEverywhere ==
    (/\ starts_with_acme(px_path)
     /\ read_challenge_ok(px_files, strip_prefix_acme(px_path))
     /\ px_answer \notin {"none", "pass"}) =>
        px_answer = "file"

\* C28: a request whose path begins with /.well-known/acme-challenge/ and
\* whose token file is absent is answered with 404; it is neither
\* redirected to HTTPS nor routed to an upstream service.
C28_MissingTokenIs404 ==
    (/\ starts_with_acme(px_path)
     /\ ~read_challenge_ok(px_files, strip_prefix_acme(px_path))
     /\ px_answer \notin {"none", "pass"}) =>
        px_answer = "not_found"

\* ---------------------------------------------------------------------------
\* The coordinator: main's loop (main.rs 111-189), its three Notify
\* primitives (main.rs 60-62) and the ProxySignals channel (proxy/mod.rs
\* 149-177).  A tokio Notify keeps at most one permit: notify_one wakes the
\* registered waiter if there is one and stores the permit otherwise; a
\* Notified future that was woken and is dropped un-consumed (the losing arm
\* of a select!) gives its notification back.
\* ---------------------------------------------------------------------------

\* The notify_one calls the model follows.
MaxSignals == 2

NotifyKinds == {"reload", "shutdown", "restart"}

\* Notify::notify_one: hand the notification to the waiter of the select, or
\* keep one permit; a permit already there absorbs the call.
notify_one(permit, waiting) ==
    IF permit # "none" THEN permit
    ELSE IF waiting THEN "handed" ELSE "stored"

\* A select! that forgot the notifications of its losing arms.
after_drop_forgets(permit) == "none"

\* What the drop of a losing select! arm leaves in its Notify: a notification
\* that was handed to the dropped future is stored again.
after_drop(permit) == IF permit = "handed" THEN "stored" ELSE permit

\* The select!'s effect on the three Notifys when the arm of `kind` wins.
select_arm(permits, kind) ==
    [k \in NotifyKinds |-> IF k = kind THEN "none" ELSE after_drop(permits[k])]

\* The proxies that have not received a signal.
Unsignalled == {p \in DOMAIN co_proxies : co_proxies[p].got = None}

InitCoord ==
    /\ InitManager /\ InitRoute /\ NoCron /\ NoLife
    /\ NoRestExcept("coordVars")
    /\ co_main = "boot"
    /\ co_permit = [k \in NotifyKinds |-> "none"]
    /\ co_burst = [k \in NotifyKinds |-> 0]
    /\ co_busy = {}
    /\ co_last = None
    /\ co_raised = 0
    /\ co_enabled \in BOOLEAN
    /\ co_gen = 1
    /\ co_chan = <<>>
    /\ co_proxies = <<>>
    /\ co_lockq = <<>>

\* A signal handler (reload, shutdown) or the certificate task (restart,
\* acme.rs 57) calls notify_one on its Notify.
RaiseSignal(kind) ==
    /\ co_main \notin {"none", "exited"}
    /\ co_raised < MaxSignals
    /\ (kind = "restart") => co_enabled
    /\ co_raised' = co_raised + 1
    /\ co_permit' = [co_permit EXCEPT ![kind] = notify_one(@, co_main = "select")]
    /\ co_burst' = [co_burst EXCEPT ![kind] = @ + 1]
    /\ co_busy' = IF co_main = "select" THEN co_busy ELSE co_busy \cup {kind}
    /\ UNCHANGED <<co_main, co_last, co_enabled, co_gen, co_chan, co_proxies, co_lockq>>
    /\ UNCHANGED outsideCoord

\* main.rs 102-107: the dummy proxy is started when the proxy is enabled.
SpawnDummy ==
    /\ co_main = "boot"
    /\ co_main' = "inner"
    /\ co_proxies' = IF co_enabled
                     THEN <<[kind |-> "dummy", state |-> "starting", got |-> None, gen |-> 0]>>
                     ELSE <<>>
    /\ UNCHANGED <<co_permit, co_burst, co_busy, co_last, co_raised, co_enabled, co_gen,
                   co_chan, co_lockq>>
    /\ UNCHANGED outsideCoord

\* main.rs 131-141: the inner loop starts a proxy thread for the current
\* manager; without a proxy it goes straight to the select.
SpawnProxy ==
    /\ co_main = "inner"
    /\ IF co_enabled
       THEN /\ co_proxies' = Append(co_proxies,
                [kind |-> "real", state |-> "starting", got |-> None, gen |-> co_gen])
            /\ co_main' = "send"
       ELSE /\ co_main' = "select"
            /\ UNCHANGED co_proxies
    /\ UNCHANGED <<co_permit, co_burst, co_busy, co_last, co_raised, co_enabled, co_gen,
                   co_chan, co_lockq>>
    /\ UNCHANGED outsideCoord

\* ProxySignals::send_signal: the send completes when the buffer has room.
send_signal(chan, signal) == Append(chan, signal)

\* main.rs 145-147: the GracefulUpgrade sent right after the spawn.
SendUpgrade ==
    /\ co_main = "send"
    /\ Len(co_chan) < 1
    /\ co_chan' = send_signal(co_chan, [signal |-> "GracefulUpgrade", spawned |-> Len(co_proxies)])
    /\ co_main' = "select"
    /\ UNCHANGED <<co_permit, co_burst, co_busy, co_last, co_raised, co_enabled, co_gen,
                   co_proxies, co_lockq>>
    /\ UNCHANGED outsideCoord

\* One arm of the select! at main.rs 151-187 wins: its notification is
\* consumed, the other arms are dropped.
SelectArm(kind, target) ==
    /\ co_main = "select"
    /\ co_permit[kind] # "none"
    /\ co_permit' = select_arm(co_permit, kind)
    /\ co_last' = Some([kind |-> kind, burst |-> co_burst[kind], busy |-> kind \in co_busy])
    /\ co_burst' = [co_burst EXCEPT ![kind] = 0]
    /\ co_busy' = co_busy \ {kind}
    /\ co_main' = target
    /\ UNCHANGED <<co_raised, co_enabled, co_gen, co_chan, co_proxies, co_lockq>>
    /\ UNCHANGED outsideCoord

\* main.rs 152-155: certificates changed, the inner loop goes round.
SelectRestart ==
    /\ co_permit["restart"] # "none"
    /\ SelectArm("restart", "inner")

\* main.rs 156-168: the reload arm.
SelectReload ==
    /\ co_permit["reload"] # "none"
    /\ SelectArm("reload", "reloading")

\* main.rs 169-186: the shutdown arm.
SelectShutdown ==
    /\ co_permit["shutdown"] # "none"
    /\ SelectArm("shutdown", "shutdown")

\* main.rs 163-167 and 113-128: reload_manager returns (with the new manager
\* or with the old one on an error), the outer loop starts the new tasks.
ReloadDone ==
    /\ co_main = "reloading"
    /\ \E ok \in BOOLEAN : co_gen' = IF ok THEN co_gen + 1 ELSE co_gen
    /\ co_main' = "inner"
    /\ UNCHANGED <<co_permit, co_burst, co_busy, co_last, co_raised, co_enabled,
                   co_chan, co_proxies, co_lockq>>
    /\ UNCHANGED outsideCoord

\* main.rs 172-178: abort, cancel and shutdown of the manager.
ShutdownSequence ==
    /\ co_main = "shutdown"
    /\ co_main' = "terminate"
    /\ UNCHANGED <<co_permit, co_burst, co_busy, co_last, co_raised, co_enabled, co_gen,
                   co_chan, co_proxies, co_lockq>>
    /\ UNCHANGED outsideCoord

\* main.rs 180-185: GracefulTerminate is sent, then the process exits.
SendTerminate ==
    /\ co_main = "terminate"
    /\ Len(co_chan) < 1
    /\ co_chan' = send_signal(co_chan, [signal |-> "GracefulTerminate", spawned |-> 0])
    /\ co_main' = "exited"
    /\ UNCHANGED <<co_permit, co_burst, co_busy, co_last, co_raised, co_enabled, co_gen,
                   co_proxies, co_lockq>>
    /\ UNCHANGED outsideCoord

\* ProxySignals::recv, first half (proxy/mod.rs 169): the server of proxy p
\* asks for the receiver mutex and joins its FIFO.
ProxyLock(p) ==
    /\ co_main # "exited"
    /\ p \in DOMAIN co_proxies
    /\ co_proxies[p].state = "starting"
    /\ co_proxies' = [co_proxies EXCEPT ![p].state = "waiting"]
    /\ co_lockq' = Append(co_lockq, p)
    /\ UNCHANGED <<co_main, co_permit, co_burst, co_busy, co_last, co_raised, co_enabled,
                   co_gen, co_chan>>
    /\ UNCHANGED outsideCoord

\* ProxySignals::recv, second half (proxy/mod.rs 170-173): the holder of the
\* mutex takes the signal out of the buffer and lets the mutex go.
ProxyRecv ==
    /\ co_main # "exited"
    /\ co_lockq # <<>>
    /\ co_chan # <<>>
    /\ co_proxies' = [co_proxies EXCEPT ![Head(co_lockq)] =
                         [@ EXCEPT !.state = "done", !.got = Some(Head(co_chan))]]
    /\ co_lockq' = Tail(co_lockq)
    /\ co_chan' = Tail(co_chan)
    /\ UNCHANGED <<co_main, co_permit, co_burst, co_busy, co_last, co_raised, co_enabled,
                   co_gen>>
    /\ UNCHANGED outsideCoord

NextCoord ==
    \/ \E kind \in NotifyKinds : RaiseSignal(kind)
    \/ SpawnDummy
    \/ SpawnProxy
    \/ SendUpgrade
    \/ SelectRestart
    \/ SelectReload
    \/ SelectShutdown
    \/ ReloadDone
    \/ ShutdownSequence
    \/ SendTerminate
    \/ \E p \in 1..(MaxSignals + 2) : ProxyLock(p)
    \/ ProxyRecv

SpecCoord == InitCoord /\ [][NextCoord]_vars

\* Every step of main and of the proxy threads is eventually taken when it
\* stays possible; the select! polls its arms in random order, so an arm
\* that is ready again and again is eventually the one that wins.
SpecCoordFair ==
    /\ SpecCoord
    /\ WF_vars(SpawnDummy) /\ WF_vars(SpawnProxy) /\ WF_vars(SendUpgrade)
    /\ WF_vars(ReloadDone) /\ WF_vars(ShutdownSequence) /\ WF_vars(SendTerminate)
    /\ SF_vars(SelectRestart) /\ SF_vars(SelectReload) /\ SF_vars(SelectShutdown)
    /\ \A p \in 1..(MaxSignals + 2) : WF_vars(ProxyLock(p))
    /\ WF_vars(ProxyRecv)

\* C29: a reload or shutdown notification is owed exactly while its Notify
\* holds it, whether it was raised in the select or while main was busy, and
\* however many times it was raised; the select's transition consumes it; and
\* a shutdown notification leads to the shutdown sequence.
C29_NotificationsNotLost ==
    /\ [](\A k \in {"reload", "shutdown"} : (co_burst[k] > 0) <=> (co_permit[k] # "none"))
    /\ \A k \in {"reload", "shutdown"} :
          (co_burst[k] > 0) ~> (co_burst[k] = 0 \/ co_main \in {"shutdown", "terminate", "exited"})
    /\ (co_burst["shutdown"] > 0) ~> (co_main \in {"shutdown", "terminate", "exited"})

\* Two reloads raised while main was away from its select were consumed by
\* one transition of the next select.
C29_Witness ==
    /\ co_last = Some([kind |-> "reload", burst |-> 2, busy |-> TRUE])
    /\ co_main = "reloading"
    /\ co_permit["reload"] = "none"

\* C30: a GracefulUpgrade is received by the proxy started just before the
\* one it was sent for, and once every signal sent has been received the only
\* proxy without a signal is the last one spawned, serving main's manager.
C30_UpgradeReachesEarlierProxy ==
    /\ \A p \in DOMAIN co_proxies :
          (co_proxies[p].got # None /\ co_proxies[p].got.val.signal = "GracefulUpgrade") =>
              p + 1 = co_proxies[p].got.val.spawned
    /\ (co_main = "select" /\ co_chan = <<>> /\ co_enabled) =>
          /\ Unsignalled = {Len(co_proxies)}
          /\ co_proxies[Len(co_proxies)].gen = co_gen

\* The coordinator's variables keep their shapes.
CoordTypeOK ==
    /\ co_main \in {"boot", "inner", "send", "select", "reloading", "shutdown", "terminate", "exited"}
    /\ co_permit \in [NotifyKinds -> {"none", "stored", "handed"}]
    /\ Len(co_chan) <= 1
    /\ Len(co_proxies) <= MaxSignals + 2

\* ---------------------------------------------------------------------------
\* The reload arm of main's select (main.rs 156-168) and the head of the
\* outer loop (main.rs 112-128), step by step.
\* ---------------------------------------------------------------------------

\* The reloads the model follows.
MaxReloads == 3

InitArm ==
    /\ InitManager /\ InitRoute /\ NoCron /\ NoLife
    /\ NoRestExcept("armVars")
    /\ ra_pc = "outer"
    /\ ra_polling = [id |-> 0, state |-> "none"]
    /\ ra_acme = [id |-> 0, state |-> "none"]
    /\ ra_built = "none"
    /\ ra_before = 0
    /\ ra_history = <<>>
    /\ ra_signal = FALSE
    /\ ra_proxy \in BOOLEAN

\* reload_signal.notify_one()
ArmNotify ==
    /\ ra_pc # "none"
    /\ Len(ra_history) + (IF ra_pc \in {"aborted", "built"} THEN 1 ELSE 0) < MaxReloads
    /\ ~ra_signal
    /\ ra_signal' = TRUE
    /\ UNCHANGED <<ra_pc, ra_polling, ra_acme, ra_built, ra_before, ra_history, ra_proxy>>
    /\ UNCHANGED outsideArm

\* main.rs 112-128: the outer loop spawns the polling task of the held
\* manager and, with the proxy enabled, the ACME task.
ArmSpawnTasks ==
    /\ ra_pc = "outer"
    /\ ra_polling' = [id |-> ra_polling.id + 1, state |-> "running"]
    /\ ra_acme' = IF ra_proxy THEN [id |-> ra_acme.id + 1, state |-> "running"] ELSE ra_acme
    /\ ra_built' = "none"
    /\ ra_pc' = "select"
    /\ UNCHANGED <<ra_before, ra_history, ra_signal, ra_proxy>>
    /\ UNCHANGED outsideArm

\* main.rs 156-161: the reload arm wins; polling_handle.abort() and
\* acme_handle.map(|t| t.abort()) come first.
ArmAbortTasks ==
    /\ ra_pc = "select"
    /\ ra_signal
    /\ ra_signal' = FALSE
    /\ ra_before' = ra_polling.id
    /\ ra_polling' = [ra_polling EXCEPT !.state = "aborted"]
    /\ ra_acme' = IF ra_acme.state = "running" THEN [ra_acme EXCEPT !.state = "aborted"] ELSE ra_acme
    /\ ra_pc' = "aborted"
    /\ UNCHANGED <<ra_built, ra_history, ra_proxy>>
    /\ UNCHANGED outsideArm

\* main.rs 163: signals::reload_manager reads the configuration and builds
\* the incoming manager, or fails.
ArmReloadManager(result) ==
    /\ ra_pc = "aborted"
    /\ ra_built' = result
    /\ ra_pc' = "built"
    /\ UNCHANGED <<ra_polling, ra_acme, ra_before, ra_history, ra_signal, ra_proxy>>
    /\ UNCHANGED outsideArm

\* main.rs 163-167: the error, if any, is logged; `break` to the outer loop.
ArmBreak ==
    /\ ra_pc = "built"
    /\ ra_history' = Append(ra_history, ra_built)
    /\ ra_pc' = "outer"
    /\ UNCHANGED <<ra_polling, ra_acme, ra_built, ra_before, ra_signal, ra_proxy>>
    /\ UNCHANGED outsideArm

NextArm ==
    \/ ArmNotify
    \/ ArmSpawnTasks
    \/ ArmAbortTasks
    \/ \E result \in {"ok", "err"} : ArmReloadManager(result)
    \/ ArmBreak

SpecArm == InitArm /\ [][NextArm]_vars

\* C31: the outgoing generation's polling and ACME tasks are cancelled only
\* once the incoming manager has been built, and after a failed construction
\* the polling task is the one that ran before the reload, still running.
C31_ConstructBeforeCancel ==
    /\ (ra_polling.state = "aborted" \/ ra_acme.state = "aborted") => ra_built = "ok"
    /\ (ra_built = "err") => (ra_polling = [id |-> ra_before, state |-> "running"])

\* ---------------------------------------------------------------------------
\* ServiceInstance::run_container and recreate_container call by call, over
\* a runtime of which any call can fail.  A world w is [box, faults, calls,
\* failed]; a fallible step returns [ok, w].
\* ---------------------------------------------------------------------------
RunVerbs == {"inspect", "pull", "stop", "remove", "create", "start"}

RunBoxes == [exists : {TRUE}, running : BOOLEAN, fresh : {FALSE}]
                \cup {[exists |-> FALSE, running |-> FALSE, fresh |-> FALSE]}

\* The call is issued and answered: it fails when the runtime fails it or
\* when `refused` (the state of the container makes the runtime refuse it).
Answer(w, verb, refused, effect) ==
    LET c == [w EXCEPT !.calls = Append(@, verb)] IN
    IF verb \in c.faults \/ refused
    THEN [ok |-> FALSE, w |-> [c EXCEPT !.failed = @ \cup {verb}]]
    ELSE [ok |-> TRUE, w |-> [c EXCEPT !.box = effect]]

\* ServiceInstance::pull_image
PullStep(w) == Answer(w, "pull", FALSE, w.box)

\* ServiceInstance::stop_container: 404 and 304 are Ok
StopStep(w) == Answer(w, "stop", FALSE, [w.box EXCEPT !.running = FALSE])

\* ServiceInstance::remove_container (force): 404 is Ok
RemoveStep(w) ==
    Answer(w, "remove", FALSE, [exists |-> FALSE, running |-> FALSE, fresh |-> FALSE])

\* ServiceInstance::create_container: the runtime refuses a name in use
CreateStep(w) ==
    Answer(w, "create", w.box.exists, [exists |-> TRUE, running |-> FALSE, fresh |-> TRUE])

\* docker.start_container: 404 without a container
StartStep(w) == Answer(w, "start", ~w.box.exists, [w.box EXCEPT !.running = TRUE])

\* docker.inspect_container, as container_does_not_exist reads its answer
InspectStep(w) ==
    [ans |-> container_does_not_exist_on(
                 IF "inspect" \in w.faults THEN "error"
                 ELSE IF w.box.exists THEN "ok" ELSE "not_found"),
     w |-> [w EXCEPT !.calls = Append(@, "inspect"),
                     !.failed = IF "inspect" \in w.faults THEN @ \cup {"inspect"} ELSE @]]

\* A recreate that gives up when the stop fails.
recreate_strict_stop(w) ==
    LET pulled == PullStep(w) IN
    IF ~pulled.ok THEN pulled
    ELSE LET stopped == StopStep(pulled.w) IN
         IF ~stopped.ok THEN stopped
         ELSE CreateStep(RemoveStep(stopped.w).w)

\* A recreate that goes on when the pull fails.
recreate_lenient_pull(w) ==
    CreateStep(RemoveStep(StopStep(PullStep(w).w).w).w)

\* ServiceInstance::recreate_container:
\*   pull_image()?; let _ = stop_container(); let _ = remove_container();
\*   create_container()?
recreate(w) ==
    LET pulled == PullStep(w) IN
    IF ~pulled.ok THEN pulled
    ELSE CreateStep(RemoveStep(StopStep(pulled.w).w).w)

\* ServiceInstance::run_container after its dependency gate:
\*   if pull == Always || container_does_not_exist() { recreate_container()? }
\*   start_container()?
run(w, pull_option) ==
    LET absent == IF pull_option = "always" THEN [ans |-> TRUE, w |-> w]
                  ELSE InspectStep(w)
        ready  == IF absent.ans THEN recreate(absent.w) ELSE [ok |-> TRUE, w |-> absent.w]
    IN  IF ~ready.ok THEN ready ELSE StartStep(ready.w)

InitRun ==
    /\ InitManager /\ InitRoute /\ NoCron /\ NoLife
    /\ NoRestExcept("runVars")
    /\ rn_pull \in {"always", "on_startup"}
    /\ rn_box \in RunBoxes
    /\ rn_faults \in SUBSET RunVerbs
    /\ rn_op = "none"
    /\ rn_before = rn_box
    /\ rn_calls = <<>>
    /\ rn_failed = {}
    /\ rn_result = "none"

World == [box |-> rn_box, faults |-> rn_faults, calls |-> <<>>, failed |-> {}]

Executed(op, out) ==
    /\ rn_op = "none"
    /\ rn_op' = op
    /\ rn_box' = out.w.box
    /\ rn_calls' = out.w.calls
    /\ rn_failed' = out.w.failed
    /\ rn_result' = IF out.ok THEN "ok" ELSE "err"
    /\ UNCHANGED <<rn_pull, rn_faults, rn_before>>
    /\ UNCHANGED outsideRun

\* poll's startup, cron and image-update branches call run_container.
RunStep ==
    /\ rn_op = "none"
    /\ Executed("run", run(World, rn_pull))

\* recreate_if_required and poll's image-update branch call
\* recreate_container.
RecreateStep ==
    /\ rn_op = "none"
    /\ Executed("recreate", recreate(World))

NextRun ==
    \/ RunStep
    \/ RecreateStep

SpecRun == InitRun /\ [][NextRun]_vars

\* The position of the first occurrence of a verb among the calls (0: none).
CallAt(verb) ==
    IF \E i \in DOMAIN rn_calls : rn_calls[i] = verb
    THEN CHOOSE i \in DOMAIN rn_calls : rn_calls[i] = verb
    ELSE 0

IsLastCall(verb) == CallAt(verb) = Len(rn_calls)

\* C32 as stated: run() returns an error exactly when the create failed, and
\* a failed pull, stop or remove is followed by the next step.
C32_OnlyCreateAborts ==
    rn_op = "run" =>
        /\ (rn_result = "err") <=> ("create" \in rn_failed)
        /\ "pull" \in rn_failed => CallAt("stop") > 0
        /\ "stop" \in rn_failed => CallAt("remove") > 0
        /\ "remove" \in rn_failed => CallAt("create") > 0

\* C32, amended: run() returns an error exactly when the pull, the create or
\* the start failed, and that call is then its last one; a failed stop or
\* remove is followed by the next step.
C32_PullCreateStartAbort ==
    rn_op = "run" =>
        /\ (rn_result = "err") <=> (rn_failed \cap {"pull", "create", "start"} # {})
        /\ \A verb \in {"pull", "create", "start"} : verb \in rn_failed => IsLastCall(verb)
        /\ "stop" \in rn_failed => CallAt("remove") = CallAt("stop") + 1
        /\ "remove" \in rn_failed => CallAt("create") = CallAt("remove") + 1

\* A run whose stop failed went on: the forced remove and the create
\* succeeded and the new container was started.
C32_Witness ==
    /\ rn_op = "run"
    /\ rn_failed = {"stop"}
    /\ rn_calls = <<"pull", "stop", "remove", "create", "start">>
    /\ rn_result = "ok"
    /\ rn_box = [exists |-> TRUE, running |-> TRUE, fresh |-> TRUE]

\* C36: when the pull of a recreate fails (in recreate itself or in the
\* recreate a run performs), no stop, remove or create is issued, the
\* container is as it was, and the error is returned.
C36_FailedPullTouchesNothing ==
    (rn_op # "none" /\ "pull" \in rn_failed) =>
        /\ \A verb \in {"stop", "remove", "create", "start"} : CallAt(verb) = 0
        /\ rn_box = rn_before
        /\ rn_result = "err"

\* The pull of a recreate failed while the container was running.
C36_Witness ==
    /\ rn_op = "recreate"
    /\ rn_failed = {"pull"}
    /\ rn_calls = <<"pull">>
    /\ rn_before = [exists |-> TRUE, running |-> TRUE, fresh |-> FALSE]
    /\ rn_result = "err"

\* C39: a run with pull = on_startup on an existing container issues no
\* stop, remove or create, whatever the inspect call answers.
C39_InspectErrorKeepsContainer ==
    (rn_op = "run" /\ rn_pull = "on_startup" /\ rn_before.exists) =>
        \A verb \in {"stop", "remove", "create"} : CallAt(verb) = 0

\* ---------------------------------------------------------------------------
\* The certificate manager (proxy/acme.rs maintain_certificates), the
\* certificates the proxy loads (proxy/certs.rs load_all_certificates) and the
\* restart arm of main's select.
\* ---------------------------------------------------------------------------

\* The sweeps the model follows.
MaxSweeps == 2

RENEW_BEFORE_DAYS == 30

SecondsPerDay == 86400

CertHosts == {"h1", "h2"}

\* What a host's ProxySettings say about operator files: nothing, one of the
\* two files, both, or both with files that do not load.
ManualKinds == {"none", "cert_only", "key_only", "both", "both_unloadable"}

cert_file_is_some(manual) == manual \in {"cert_only", "both", "both_unloadable"}

key_file_is_some(manual) == manual \in {"key_only", "both", "both_unloadable"}

\* The managed certificate of a host: no file, or the seconds it is still
\* valid for; and whether the key file is there.
ManagedFiles ==
    {[crt |-> "missing", left |-> 0, key |-> FALSE]} \cup
    [crt : {"present"},
     left : {RENEW_BEFORE_DAYS * SecondsPerDay - 1, RENEW_BEFORE_DAYS * SecondsPerDay},
     key : {TRUE}]

FreshLeft == 90 * SecondsPerDay

\* needs_renewal: no certificate file, or fewer than RENEW_BEFORE_DAYS whole
\* days remaining.
needs_renewal(managed) ==
    IF managed.crt = "missing" THEN TRUE
    ELSE (managed.left \div SecondsPerDay) < RENEW_BEFORE_DAYS

\* maintain_certificates, host loop: `Skip if manually configured`
skipped_as_manual(manual) == cert_file_is_some(manual) \/ key_file_is_some(manual)

\* load_all_certificates, step 1: the operator certificate is loaded when both
\* files are named and create_ssl_context accepts them.
loads_manual(manual) == manual = "both"

\* How obtaining a certificate can end: ensure_simulated_cert returns true or
\* panics on a failed write; ensure_acme_cert returns Ok(true), fails before
\* anything is written, or fails between the two writes.
ObtainOutcomes(simulate) ==
    IF simulate THEN {"written", "panic"} ELSE {"written", "failed", "cert_only"}

NoSweep == [start |-> [h \in CertHosts |-> [crt |-> "missing", left |-> 0, key |-> FALSE]],
            attempted |-> {}, written |-> {}, notified |-> 0]

InitCerts ==
    /\ InitManager /\ InitRoute /\ NoCron /\ NoLife
    /\ NoRestExcept("certVars")
    /\ ce_simulate \in BOOLEAN
    /\ ce_manual \in [CertHosts -> ManualKinds]
    /\ ce_managed \in [CertHosts -> ManagedFiles]
    /\ ce_pc = "idle"
    /\ ce_todo = {}
    /\ ce_changed = FALSE
    /\ ce_sweep = NoSweep
    /\ ce_sweeps = 0
    /\ ce_permit = FALSE
    /\ ce_main = [proxies |-> 1, polling |-> 1]

\* The head of the loop: changed = false, proxy_configs read.
SweepBegin ==
    /\ ce_pc = "idle"
    /\ ce_sweeps < MaxSweeps
    /\ ce_sweeps' = ce_sweeps + 1
    /\ ce_pc' = "sweeping"
    /\ ce_todo' = CertHosts
    /\ ce_changed' = FALSE
    /\ ce_sweep' = [NoSweep EXCEPT !.start = ce_managed]
    /\ UNCHANGED <<ce_simulate, ce_manual, ce_managed, ce_permit, ce_main>>
    /\ UNCHANGED outsideCert

\* One pass of the host loop (the order of into_values() is arbitrary).
SweepHost(host, outcome) ==
    /\ ce_pc = "sweeping"
    /\ host \in ce_todo
    /\ ce_todo' = ce_todo \ {host}
    /\ IF skipped_as_manual(ce_manual[host]) \/ ~needs_renewal(ce_managed[host])
       THEN /\ outcome = "written"
            /\ UNCHANGED <<ce_managed, ce_changed, ce_sweep, ce_pc>>
       ELSE /\ outcome \in ObtainOutcomes(ce_simulate)
            /\ ce_managed' =
                  CASE outcome = "written" ->
                         [ce_managed EXCEPT ![host] = [crt |-> "present", left |-> FreshLeft, key |-> TRUE]]
                    [] outcome = "cert_only" ->
                         [ce_managed EXCEPT ![host] = [crt |-> "present", left |-> FreshLeft, key |-> @.key]]
                    [] OTHER -> ce_managed
            /\ ce_changed' = (ce_changed \/ outcome = "written")
            /\ ce_sweep' = [ce_sweep EXCEPT
                              !.attempted = @ \cup {host},
                              !.written = IF outcome \in {"written", "cert_only"}
                                          THEN @ \cup {host} ELSE @]
            /\ ce_pc' = IF outcome = "panic" THEN "dead" ELSE ce_pc
    /\ UNCHANGED <<ce_simulate, ce_manual, ce_sweeps, ce_permit, ce_main>>
    /\ UNCHANGED outsideCert

\* The tail of the loop: `if changed { notify.notify_one() }`, then the sleep.
SweepEnd ==
    /\ ce_pc = "sweeping"
    /\ ce_todo = {}
    /\ ce_pc' = "idle"
    /\ ce_permit' = (ce_permit \/ ce_changed)
    /\ ce_sweep' = [ce_sweep EXCEPT !.notified = IF ce_changed THEN @ + 1 ELSE @]
    /\ UNCHANGED <<ce_simulate, ce_manual, ce_managed, ce_todo, ce_changed, ce_sweeps, ce_main>>
    /\ UNCHANGED outsideCert

\* main.rs 152-155 and 131-148: the restart arm continues the inner loop,
\* which spawns a proxy; the polling handle is not touched.
restart_arm(main) == [main EXCEPT !.proxies = @ + 1]

RestartProxy ==
    /\ ce_permit
    /\ ce_permit' = FALSE
    /\ ce_main' = restart_arm(ce_main)
    /\ UNCHANGED <<ce_simulate, ce_manual, ce_managed, ce_pc, ce_todo, ce_changed, ce_sweep,
                   ce_sweeps>>
    /\ UNCHANGED outsideCert

NextCerts ==
    \/ SweepBegin
    \/ \E host \in CertHosts, outcome \in {"written", "failed", "cert_only", "panic"} :
           SweepHost(host, outcome)
    \/ SweepEnd
    \/ RestartProxy

SpecCerts == InitCerts /\ [][NextCerts]_vars

\* The sweep is over: the task sleeps or has died.
SweepOver == ce_sweeps > 0 /\ ce_pc \in {"idle", "dead"}

\* C33: a sweep calls notify_one once when it wrote a certificate and not at
\* all otherwise; proxies are spawned only for such notifications and the
\* polling task stays the one main spawned.
C33_NotifyIffWritten ==
    /\ SweepOver => ce_sweep.notified = (IF ce_sweep.written # {} THEN 1 ELSE 0)
    /\ ce_main.polling = 1

\* C34: in a sweep that reached its end, every routed host of which the
\* proxy loads no operator certificate and whose managed certificate was not
\* valid for 30 more days has been attempted, and only hosts with an operator
\* certificate or such a managed certificate were passed over.
C34_EveryUncoveredHostAttempted ==
    (ce_sweeps > 0 /\ ce_pc = "idle") =>
        \A host \in CertHosts :
            (host \in ce_sweep.attempted) <=>
                (~loads_manual(ce_manual[host]) /\ needs_renewal(ce_sweep.start[host]))

\* ---------------------------------------------------------------------------
\* ServicesManager::from_config, the pruning of depends_on (manager.rs
\* 268-287) and the instances built from the pruned service files
\* (manager.rs 294-357).
\* ---------------------------------------------------------------------------
PruneConditions == {"started", "completed"}

\* The depends_on maps a service file can carry: any names, loaded or not.
DependsOnMaps == UNION {[keys -> PruneConditions] : keys \in SUBSET Names}

\* A from_config that keeps every dependency.
retain_all(deps, loaded_service_names) == deps

\* service_file.depends_on.retain(|name, _| loaded_service_names.contains(name))
retain_loaded(deps, loaded_service_names) ==
    [name \in DOMAIN deps \cap loaded_service_names |-> deps[name]]

\* The instances of the manager: one per service file, with the pruned map.
pruned_instances(services) ==
    LET loaded_service_names == DOMAIN services IN
    [name \in DOMAIN services |->
        [depends_on |-> retain_loaded(services[name], loaded_service_names)]]

InitPrune ==
    /\ InitManager /\ InitRoute /\ NoCron /\ NoLife
    /\ NoRestExcept("pruneVars")
    /\ \E loaded \in SUBSET Names :
           /\ Cardinality(loaded) <= MaxServices
           /\ pr_services \in [loaded -> DependsOnMaps]
    /\ pr_manager = None

\* from_config returns the manager.
PruneFromConfig ==
    /\ pr_manager = None
    /\ pr_manager' = Some(pruned_instances(pr_services))
    /\ UNCHANGED pr_services
    /\ UNCHANGED outsidePrune

NextPrune == PruneFromConfig

SpecPrune == InitPrune /\ [][NextPrune]_vars

\* C35: in the manager from_config returns, every key of an instance's
\* depends_on names an instance of that manager; the dependencies on loaded
\* services are kept with their conditions.
C35_DependenciesAreLoaded ==
    pr_manager.some =>
        LET instances == pr_manager.val IN
        /\ DOMAIN instances = DOMAIN pr_services
        /\ \A name \in DOMAIN instances :
              /\ DOMAIN instances[name].depends_on \subseteq DOMAIN instances
              /\ \A dep \in DOMAIN pr_services[name] \cap DOMAIN instances :
                    /\ dep \in DOMAIN instances[name].depends_on
                    /\ instances[name].depends_on[dep] = pr_services[name][dep]

\* Service a depended on b (loaded) and on c (not loaded): the manager's
\* instance of a waits for b only.
C35_Witness ==
    /\ pr_manager.some
    /\ DOMAIN pr_services = {"a", "b"}
    /\ DOMAIN pr_services["a"] = {"b", "c"}
    /\ pr_manager.val["a"].depends_on = [dep \in {"b"} |-> pr_services["a"]["b"]]

\* ---------------------------------------------------------------------------
\* Further properties of the lifecycle loop (SpecLife).
\* ---------------------------------------------------------------------------

\* The services declared in both generations whose declaration is the same
\* and whose container existed when the reload was handled.
UnchangedSurvivors ==
    IF existing_ips.some
    THEN (Range(holder.service_names) \cap DOMAIN existing_ips.val) \ changed_or_missing
    ELSE {}

\* C37: from a successful reload on (its diff step, then the first polling
\* ticks of the incoming generation) no pull, stop, remove or create is
\* issued for a service whose declaration is unchanged and whose container
\* existed.
C37_UnchangedSurvivorUntouched ==
    (last_reload = "ok" /\ coord # "exited") =>
        \A n \in UnchangedSurvivors :
            \A verb \in VerbsOfRecreate : <<verb, n>> \notin calls

\* ---------------------------------------------------------------------------
\* One service that survives reloads: its poll task call by call
\* (manager.rs 395-437, instance.rs 516-575), the reload arm that aborts it
\* (main.rs 156-168), the reload's diff step and the polling task of the next
\* generation (main.rs 112-120).  The runtime calls succeed.
\* ---------------------------------------------------------------------------

\* The triggers and reloads the model follows.
MaxEvents == 3

SurvDeclarations ==
    [ver : {1, 2}, initialize : {"immediately", "on_trigger"}, pull : {"always", "on_startup"}]

SurvNoBox == [exists |-> FALSE, running |-> FALSE, ver |-> 0]

RecreateCalls == <<"pull", "stop", "remove", "create">>

\* The calls of run_container: the recreate when pull is always or the
\* container is absent, then the start.
RunCalls(decl, exists) ==
    IF decl.pull = "always" \/ ~exists THEN RecreateCalls \o <<"start">> ELSE <<"start">>

\* The calls of one poll: the startup branch, the cron branch, the
\* image-update branch (recreate_container, then run_container) or nothing.
PollCalls(decl, exists, init, trigger) ==
    IF init /\ decl.initialize = "immediately" THEN RunCalls(decl, exists)
    ELSE IF trigger = "cron" THEN RunCalls(decl, exists)
    ELSE IF trigger = "image" THEN RecreateCalls \o RunCalls(decl, TRUE)
    ELSE <<>>

\* What a runtime call does to the container.
AfterCall(container, verb, decl) ==
    CASE verb = "stop"   -> [container EXCEPT !.running = FALSE]
      [] verb = "remove" -> SurvNoBox
      [] verb = "create" -> IF container.exists THEN container
                            ELSE [exists |-> TRUE, running |-> FALSE, ver |-> decl.ver]
      [] verb = "start"  -> IF container.exists THEN [container EXCEPT !.running = TRUE]
                            ELSE container
      [] OTHER           -> container

\* recreate_if_required of the incoming instance against the outgoing one.
AfterDiff(container, incoming, outgoing) ==
    IF ~container.exists \/ incoming # outgoing
    THEN [exists |-> TRUE, running |-> FALSE, ver |-> incoming.ver]
    ELSE container

\* The first generation has started the service or not, and main waits in
\* its select while the poll task sleeps.
InitSurv ==
    /\ InitManager /\ InitRoute /\ NoCron /\ NoLife
    /\ NoRestExcept("survVars")
    /\ su_decl \in SurvDeclarations
    /\ su_box \in {SurvNoBox, [exists |-> TRUE, running |-> TRUE, ver |-> su_decl.ver]}
    /\ (su_decl.initialize = "immediately") => su_box.exists
    /\ su_alive = TRUE
    /\ su_init = FALSE
    /\ su_plan = <<>>
    /\ su_had = FALSE
    /\ su_main = "select"
    /\ su_reload = "none"
    /\ su_before = SurvNoBox
    /\ su_cut = FALSE
    /\ su_events = 0

\* The poll loop wakes up and instance.poll begins; init = false.
SurvPoll(trigger) ==
    /\ su_alive
    /\ su_plan = <<>>
    /\ (trigger # "quiet") => (su_events < MaxEvents /\ ~su_init)
    /\ su_events' = IF trigger = "quiet" THEN su_events ELSE su_events + 1
    /\ su_plan' = PollCalls(su_decl, su_box.exists, su_init, trigger)
    /\ su_had' = su_box.exists
    /\ su_init' = FALSE
    /\ UNCHANGED <<su_decl, su_box, su_alive, su_main, su_reload, su_before, su_cut>>
    /\ UNCHANGED outsideSurv

\* The poll issues its next runtime call and gets the answer.
SurvCall ==
    /\ su_alive
    /\ su_plan # <<>>
    /\ su_box' = AfterCall(su_box, Head(su_plan), su_decl)
    /\ su_plan' = Tail(su_plan)
    /\ UNCHANGED <<su_decl, su_alive, su_init, su_had, su_main, su_reload, su_before,
                   su_cut, su_events>>
    /\ UNCHANGED outsideSurv

\* main.rs 156-161: the reload arm is taken and the polling task aborted; the
\* poll is dropped where it stands.
SurvAbort ==
    /\ su_main = "select"
    /\ su_events < MaxEvents
    /\ su_events' = su_events + 1
    /\ su_main' = "reload"
    /\ su_alive' = FALSE
    /\ su_cut' = (su_plan # <<>> /\ Head(su_plan) = "create" /\ su_had)
    /\ su_before' = su_box
    /\ su_plan' = <<>>
    /\ UNCHANGED <<su_decl, su_box, su_init, su_had, su_reload>>
    /\ UNCHANGED outsideSurv

\* main.rs 163: reload_manager builds the incoming manager, recreates what
\* changed or is missing and stores the manager; the service is declared in
\* the incoming configuration too.
SurvReloadOk(incoming) ==
    /\ su_main = "reload"
    /\ su_box' = AfterDiff(su_box, incoming, su_decl)
    /\ su_decl' = incoming
    /\ su_reload' = "ok"
    /\ su_main' = "outer"
    /\ UNCHANGED <<su_alive, su_init, su_plan, su_had, su_before, su_cut, su_events>>
    /\ UNCHANGED outsideSurv

\* main.rs 163-165: reload_manager fails; the manager is kept.
SurvReloadFail ==
    /\ su_main = "reload"
    /\ su_reload' = "failed"
    /\ su_main' = "outer"
    /\ UNCHANGED <<su_decl, su_box, su_alive, su_init, su_plan, su_had, su_before, su_cut,
                   su_events>>
    /\ UNCHANGED outsideSurv

\* main.rs 112-120: the outer loop spawns start_polling; init = true.
SurvSpawn ==
    /\ su_main = "outer"
    /\ su_main' = "select"
    /\ su_alive' = TRUE
    /\ su_init' = TRUE
    /\ UNCHANGED <<su_decl, su_box, su_plan, su_had, su_reload, su_before, su_cut, su_events>>
    /\ UNCHANGED outsideSurv

NextSurv ==
    \/ \E trigger \in {"quiet", "cron", "image"} : SurvPoll(trigger)
    \/ SurvCall
    \/ SurvAbort
    \/ \E incoming \in SurvDeclarations : SurvReloadOk(incoming)
    \/ SurvReloadFail
    \/ SurvSpawn

SpecSurv == InitSurv /\ [][NextSurv]_vars

\* The reload has settled: the new polling task has made its first poll and
\* no poll is under way.
SurvSettled == su_main = "select" /\ su_alive /\ ~su_init /\ su_plan = <<>>

\* C38: once a successful reload has settled, a service whose container was
\* running before the reload has a running container.
C38_RunningSurvivorRunsAgain ==
    (su_reload = "ok" /\ SurvSettled /\ su_before.running) => su_box.running

\* C40: once a reload, successful or failed, has settled, a service whose
\* recreate was cut between remove and create, and which had a container
\* before, has a container.
C40_CutRecreateIsRepaired ==
    (su_reload # "none" /\ SurvSettled /\ su_cut) => su_box.exists
=============================================================================
